---- MODULE Spec2Model ----
(***************************************************************************)
(* State-machine model of the snake game's simulation core                 *)
(* (GameScreen: tick updater, bonus timer updater, startGame,              *)
(* handleDirectionChange) and of the bonus registry (types/bonus.ts).      *)
(***************************************************************************)
EXTENDS Integers, Sequences, FiniteSets, TLC

(***************************************************************************)
(* Bounds of the model.  The grid size comes from the device's screen      *)
(* (constants.ts: Dimensions.get('window')), so it is an input of the      *)
(* program, not a constant of it.                                          *)
(***************************************************************************)
\* A small two-dimensional board, where the snake can turn and hit itself
BoardWidth == 4

BoardHeight == 2

\* A one-row board long enough for every bonus type's threshold to be reached
StripWidth == 28

\* The x of a random position is drawn among this many rightmost columns
PositionColumns == 14

\* Timer callbacks a bonus may receive while the game goes on around it; beyond
\* that the model only lets the timer run on until the active bonuses expire
MaxLooseTimerTicks == 1

\* Tick stops being taken once the score has reached this cap (the score is
\* unbounded in the program).
MaxScore == 40

\* Number of distinct outcomes of one Math.floor(Math.random() * n) draw the
\* model explores: the lowest ones and the highest one.
RandomOutcomes == 1

\* Longest snake the tick updater is applied to as a function of its input
MaxInputLength == 9

\* Longest snake calculateGameSpeed is applied to as a function of its input
MaxSpeedLength == 80

\* Number of values Date.now() returns over the sessions that are compared
\* for replay
ClockReadings == 2

\* Those sessions are followed until the score has reached this cap
MaxReplayScore == 11

\* The race for a bonus: the bonus is at most this many timer callbacks from
\* expiry, and the session is followed up to this many regular eggs
MaxRaceCallbacks == 2
MaxRacePickups == 7

\* updateHighScoreIfNeeded: calls in flight at once, and the highest score a
\* session is taken to end with
MaxCalls == 2
MaxFinalScore == 11

(***************************************************************************)
(* utils/storage.ts: the high score kept in AsyncStorage                   *)
(***************************************************************************)
VARIABLES
  AsyncStorage,      \* the item stored under HIGH_SCORE_KEY, or null
  updateCalls        \* the updateHighScoreIfNeeded calls and where each stands

\* No item is stored; like the empty string, it reads as 0
null == << >>

\* score.toString(): the decimal digits of a non-negative integer
RECURSIVE toString(_)
toString(score) ==
  IF score < 10 THEN << score >> ELSE toString(score \div 10) \o << score % 10 >>

\* parseInt(value, 10) of a string of decimal digits
RECURSIVE parseInt(_)
parseInt(value) ==
  IF Len(value) = 1 THEN value[1]
  ELSE 10 * parseInt(SubSeq(value, 1, Len(value) - 1)) + value[Len(value)]

\* value ? parseInt(value, 10) : 0
parseStoredValue(value) == IF value = null THEN 0 ELSE parseInt(value)

\* The scores a session is taken to end with
FinalScores == {0, MaxFinalScore \div 2, MaxFinalScore}

\* A call that has not been made
NoCall == [pc |-> "none", currentScore |-> 0, highScore |-> 0, result |-> 0]

NoCalls == [c \in 1 .. MaxCalls |-> NoCall]

(***************************************************************************)
(* constants.ts                                                            *)
(***************************************************************************)
VARIABLES
  GRID_WIDTH,        \* Math.floor(SCREEN_WIDTH / CELL_SIZE), fixed at load
  GRID_HEIGHT,       \* Math.floor(GAME_AREA_HEIGHT / CELL_SIZE), fixed at load
  DateNow            \* the values Date.now() can return while the program runs

\* The boards (width, height) the model is run on
Screens == {<< BoardWidth, BoardHeight >>, << StripWidth, 1 >>}

Direction == {"UP", "DOWN", "LEFT", "RIGHT"}

DIRECTIONS ==
  [d \in Direction |->
     CASE d = "UP"    -> [x |-> 0,  y |-> -1]
       [] d = "DOWN"  -> [x |-> 0,  y |-> 1]
       [] d = "LEFT"  -> [x |-> -1, y |-> 0]
       [] d = "RIGHT" -> [x |-> 1,  y |-> 0]]

Cells == [x : 0 .. GRID_WIDTH - 1, y : 0 .. GRID_HEIGHT - 1]

GameDifficulty == {"easy", "medium", "hard", "extreme"}

DIFFICULTY_SETTINGS ==
  [d \in GameDifficulty |->
     CASE d = "easy"    -> [baseSpeed |-> 150, speedIncrease |-> 2, maxSpeedCap |-> 300]
       [] d = "medium"  -> [baseSpeed |-> 100, speedIncrease |-> 2, maxSpeedCap |-> 250]
       [] d = "hard"    -> [baseSpeed |-> 70,  speedIncrease |-> 2, maxSpeedCap |-> 200]
       [] d = "extreme" -> [baseSpeed |-> 50,  speedIncrease |-> 2, maxSpeedCap |-> 150]]

\* Faulty variant: the cap is not applied
calculateGameSpeedUncapped(snakeLength, difficulty) ==
  LET settings == DIFFICULTY_SETTINGS[difficulty]
  IN settings.baseSpeed + snakeLength * settings.speedIncrease

calculateGameSpeed(snakeLength, difficulty) ==
  LET settings == DIFFICULTY_SETTINGS[difficulty]
      speed == settings.baseSpeed + snakeLength * settings.speedIncrease
  IN IF speed < settings.maxSpeedCap THEN speed ELSE settings.maxSpeedCap

(***************************************************************************)
(* types/bonus.ts: the registry.  spawnChance is held in percent.          *)
(***************************************************************************)
\* Faulty variant: the regular egg does not grow the snake
REGULAR_EGG_CONFIG_NoGrowth ==
  [type |-> "regular-egg", minPoints |-> 1, maxPoints |-> 1, lifetime |-> 0,
   minSpawnAfterEggs |-> 0, maxSpawnAfterEggs |-> 0,
   minRespawnAfterEggs |-> 0, maxRespawnAfterEggs |-> 0,
   spawnChance |-> 100, maxInstances |-> 1, priority |-> 100,
   growsSnake |-> FALSE, effect |-> [type |-> "none", value |-> 0]]

REGULAR_EGG_CONFIG ==
  [type |-> "regular-egg", minPoints |-> 1, maxPoints |-> 1, lifetime |-> 0,
   minSpawnAfterEggs |-> 0, maxSpawnAfterEggs |-> 0,
   minRespawnAfterEggs |-> 0, maxRespawnAfterEggs |-> 0,
   spawnChance |-> 100, maxInstances |-> 1, priority |-> 100,
   growsSnake |-> TRUE, effect |-> [type |-> "none", value |-> 0]]

\* Faulty variant: the dragon egg spawns with probability one half
DRAGON_EGG_CONFIG_HalfChance ==
  [type |-> "dragon-egg", minPoints |-> 10, maxPoints |-> 15, lifetime |-> 20000,
   minSpawnAfterEggs |-> 5, maxSpawnAfterEggs |-> 15,
   minRespawnAfterEggs |-> 5, maxRespawnAfterEggs |-> 10,
   spawnChance |-> 50, maxInstances |-> 1, priority |-> 50,
   growsSnake |-> TRUE, effect |-> [type |-> "none", value |-> 0]]

DRAGON_EGG_CONFIG ==
  [type |-> "dragon-egg", minPoints |-> 10, maxPoints |-> 15, lifetime |-> 20000,
   minSpawnAfterEggs |-> 5, maxSpawnAfterEggs |-> 15,
   minRespawnAfterEggs |-> 5, maxRespawnAfterEggs |-> 10,
   spawnChance |-> 100, maxInstances |-> 1, priority |-> 50,
   growsSnake |-> TRUE, effect |-> [type |-> "none", value |-> 0]]

SHRINK_EGG_CONFIG ==
  [type |-> "shrink-egg", minPoints |-> 3, maxPoints |-> 5, lifetime |-> 15000,
   minSpawnAfterEggs |-> 10, maxSpawnAfterEggs |-> 15,
   minRespawnAfterEggs |-> 10, maxRespawnAfterEggs |-> 15,
   spawnChance |-> 80, maxInstances |-> 1, priority |-> 45,
   growsSnake |-> FALSE, effect |-> [type |-> "shrink", value |-> 5]]

GOLDEN_APPLE_CONFIG ==
  [type |-> "golden-apple", minPoints |-> 5, maxPoints |-> 8, lifetime |-> 10000,
   minSpawnAfterEggs |-> 10, maxSpawnAfterEggs |-> 25,
   minRespawnAfterEggs |-> 8, maxRespawnAfterEggs |-> 15,
   spawnChance |-> 60, maxInstances |-> 1, priority |-> 40,
   growsSnake |-> TRUE, effect |-> [type |-> "none", value |-> 0]]

CRYSTAL_GEM_CONFIG ==
  [type |-> "crystal-gem", minPoints |-> 15, maxPoints |-> 25, lifetime |-> 8000,
   minSpawnAfterEggs |-> 20, maxSpawnAfterEggs |-> 40,
   minRespawnAfterEggs |-> 15, maxRespawnAfterEggs |-> 25,
   spawnChance |-> 40, maxInstances |-> 1, priority |-> 30,
   growsSnake |-> TRUE, effect |-> [type |-> "none", value |-> 0]]

\* bonusRegistry.register(...) calls, in registration order
registered ==
  << REGULAR_EGG_CONFIG, DRAGON_EGG_CONFIG, SHRINK_EGG_CONFIG,
     GOLDEN_APPLE_CONFIG, CRYSTAL_GEM_CONFIG >>

\* Faulty variant: a type id that is absent gets the dragon egg's config
RegistryGetWithFallback(type) ==
  IF \E j \in 1 .. Len(registered) : registered[j].type = type
  THEN {registered[i] : i \in {j \in 1 .. Len(registered) : registered[j].type = type}}
  ELSE {DRAGON_EGG_CONFIG}

\* BonusRegistry.get(type): the set holding the config, empty when absent
RegistryGet(type) == {registered[i] : i \in {j \in 1 .. Len(registered) : registered[j].type = type}}

\* Faulty variant: a config goes in front of those of its own priority
RECURSIVE InsertByPriorityTiesReversed(_, _)
InsertByPriorityTiesReversed(c, sorted) ==
  IF sorted = << >> THEN << c >>
  ELSE IF Head(sorted).priority > c.priority
       THEN << Head(sorted) >> \o InsertByPriorityTiesReversed(c, Tail(sorted))
       ELSE << c >> \o sorted

\* Array.prototype.sort((a, b) => b.priority - a.priority) is stable
RECURSIVE InsertByPriority(_, _)
InsertByPriority(c, sorted) ==
  IF sorted = << >> THEN << c >>
  ELSE IF Head(sorted).priority >= c.priority
       THEN << Head(sorted) >> \o InsertByPriority(c, Tail(sorted))
       ELSE << c >> \o sorted

RECURSIVE SortByPriority(_)
SortByPriority(configs) ==
  IF configs = << >> THEN << >>
  ELSE InsertByPriority(configs[Len(configs)],
                        SortByPriority(SubSeq(configs, 1, Len(configs) - 1)))

getAllSorted == SortByPriority(registered)

getSpawnableBonuses ==
  SelectSeq(getAllSorted, LAMBDA c : c.type # "regular-egg" /\ c.lifetime > 0)

SpawnableTypes == {getSpawnableBonuses[i].type : i \in 1 .. Len(getSpawnableBonuses)}

(***************************************************************************)
(* Random draws                                                            *)
(***************************************************************************)
\* Outcomes of Math.floor(Math.random() * n), n >= 1
RandomInt(n) ==
  {k \in 0 .. n - 1 : k = 0 \/ k < RandomOutcomes - 1 \/ (RandomOutcomes >= 2 /\ k = n - 1)}

\* Outcomes of Math.random(), in percent
RandomPercent == {0, 99}

\* Faulty variant: the drawn points come out negated
getRandomPointsNegated(config) ==
  IF config.minPoints = config.maxPoints THEN {-config.minPoints}
  ELSE {-(k + config.minPoints) : k \in RandomInt(config.maxPoints - config.minPoints + 1)}

getRandomPoints(config) ==
  IF config.minPoints = config.maxPoints THEN {config.minPoints}
  ELSE {k + config.minPoints : k \in RandomInt(config.maxPoints - config.minPoints + 1)}

getRandomSpawnThreshold(config) ==
  IF config.minSpawnAfterEggs = config.maxSpawnAfterEggs THEN {config.minSpawnAfterEggs}
  ELSE {k + config.minSpawnAfterEggs :
          k \in RandomInt(config.maxSpawnAfterEggs - config.minSpawnAfterEggs + 1)}

\* Faulty variant: the lower bound is not added to the draw
getRandomRespawnThresholdFromZero(config) ==
  IF config.minRespawnAfterEggs = config.maxRespawnAfterEggs THEN {config.minRespawnAfterEggs}
  ELSE RandomInt(config.maxRespawnAfterEggs - config.minRespawnAfterEggs + 1)

getRandomRespawnThreshold(config) ==
  IF config.minRespawnAfterEggs = config.maxRespawnAfterEggs THEN {config.minRespawnAfterEggs}
  ELSE {k + config.minRespawnAfterEggs :
          k \in RandomInt(config.maxRespawnAfterEggs - config.minRespawnAfterEggs + 1)}

Range(s) == {s[i] : i \in 1 .. Len(s)}

\* Faulty variant: the rejection loop accepts its first draw
getRandomPositionAnywhere(excludePositions) ==
  {c \in Cells : c.x >= GRID_WIDTH - PositionColumns}

\* The cells the rejection loop can return; empty when it never terminates
getRandomPosition(excludePositions) ==
  {c \in Cells : c.x >= GRID_WIDTH - PositionColumns} \ excludePositions

\* `bonus_${Date.now()}_${Math.random().toString(36).substring(2, 9)}`, held
\* as the clock reading and the suffix's first base-36 digit
generateBonusId == {[time |-> t, suffix |-> r] : t \in DateNow, r \in RandomInt(36)}

\* Faulty variant: the bonus starts with one callback more than its lifetime
createActiveBonusOvertime(config, position) ==
  UNION {{[id |-> id, configType |-> config.type, position |-> position, points |-> p,
            timeRemaining |-> config.lifetime + 100, spawnedAt |-> t] :
             p \in getRandomPoints(config), t \in {u \in DateNow : u >= id.time}} :
         id \in generateBonusId}

\* The clock is read twice, for the id and then for spawnedAt
createActiveBonus(config, position) ==
  UNION {{[id |-> id, configType |-> config.type, position |-> position, points |-> p,
            timeRemaining |-> config.lifetime, spawnedAt |-> t] :
             p \in getRandomPoints(config), t \in {u \in DateNow : u >= id.time}} :
         id \in generateBonusId}

getBonusPositions(bonuses) == {bonuses[i].position : i \in 1 .. Len(bonuses)}

SpawnThresholds ==
  UNION {getRandomSpawnThreshold(getSpawnableBonuses[i]) : i \in 1 .. Len(getSpawnableBonuses)}

createInitialBonusState ==
  {[activeBonuses |-> << >>,
    eggsEatenSince |-> [t \in SpawnableTypes |-> 0],
    nextSpawnAt |-> n] :
     n \in {f \in [SpawnableTypes -> SpawnThresholds] :
              \A i \in 1 .. Len(getSpawnableBonuses) :
                 f[getSpawnableBonuses[i].type] \in getRandomSpawnThreshold(getSpawnableBonuses[i])}}

(***************************************************************************)
(* GameScreen: helper functions                                            *)
(***************************************************************************)
createInitialState ==
  LET centerX == GRID_WIDTH \div 2
      centerY == GRID_HEIGHT \div 2
      initialSnake == << [x |-> centerX, y |-> centerY],
                         [x |-> centerX - 1, y |-> centerY],
                         [x |-> centerX - 2, y |-> centerY] >>
  IN {[snake |-> initialSnake, food |-> f, bonusState |-> b,
       direction |-> "RIGHT", nextDirection |-> "RIGHT", score |-> 0,
       isRunning |-> FALSE, isGameOver |-> FALSE] :
        f \in getRandomPosition(Range(initialSnake)), b \in createInitialBonusState}

\* Faulty variant: the self-collision loop is missing
checkCollisionWallsOnly(head, snake) ==
  \/ head.x < 0
  \/ head.x >= GRID_WIDTH
  \/ head.y < 0
  \/ head.y >= GRID_HEIGHT

\* Faulty variant: the right wall is one column too far
checkCollisionOffByOne(head, snake) ==
  \/ head.x < 0
  \/ head.x > GRID_WIDTH
  \/ head.y < 0
  \/ head.y >= GRID_HEIGHT
  \/ \E i \in 2 .. Len(snake) : snake[i].x = head.x /\ snake[i].y = head.y

\* Faulty variant: the left wall is not tested
checkCollisionNoLeftWall(head, snake) ==
  \/ head.x >= GRID_WIDTH
  \/ head.y < 0
  \/ head.y >= GRID_HEIGHT
  \/ \E i \in 2 .. Len(snake) : snake[i].x = head.x /\ snake[i].y = head.y

checkCollision(head, snake) ==
  \/ head.x < 0
  \/ head.x >= GRID_WIDTH
  \/ head.y < 0
  \/ head.y >= GRID_HEIGHT
  \/ \E i \in 2 .. Len(snake) : snake[i].x = head.x /\ snake[i].y = head.y

\* Faulty variant: each callback takes 200 ms off, so a bonus expires after
\* half as many callbacks
RECURSIVE processExpiredBonusesFast(_)
processExpiredBonusesFast(bonuses) ==
  IF bonuses = << >> THEN [updated |-> << >>, expired |-> << >>]
  ELSE LET bonus == Head(bonuses)
           rest == processExpiredBonusesFast(Tail(bonuses))
           newTime == bonus.timeRemaining - 200
       IN IF newTime <= 0
          THEN [updated |-> rest.updated, expired |-> << bonus >> \o rest.expired]
          ELSE [updated |-> << [bonus EXCEPT !.timeRemaining = newTime] >> \o rest.updated,
                expired |-> rest.expired]

\* Faulty variant: a bonus that has run out is reported and stays active
RECURSIVE processExpiredBonusesKeepsExpired(_)
processExpiredBonusesKeepsExpired(bonuses) ==
  IF bonuses = << >> THEN [updated |-> << >>, expired |-> << >>]
  ELSE LET bonus == Head(bonuses)
           rest == processExpiredBonusesKeepsExpired(Tail(bonuses))
           configs == RegistryGet(bonus.configType)
           newTime == bonus.timeRemaining - 100
       IN IF configs = {} \/ (\A c \in configs : c.lifetime = 0)
          THEN [updated |-> << bonus >> \o rest.updated, expired |-> rest.expired]
          ELSE IF newTime <= 0
               THEN [updated |-> << [bonus EXCEPT !.timeRemaining = newTime] >> \o rest.updated,
                     expired |-> << bonus >> \o rest.expired]
               ELSE [updated |-> << [bonus EXCEPT !.timeRemaining = newTime] >> \o rest.updated,
                     expired |-> rest.expired]

\* Returns [updated, expired]
RECURSIVE processExpiredBonuses(_)
processExpiredBonuses(bonuses) ==
  IF bonuses = << >> THEN [updated |-> << >>, expired |-> << >>]
  ELSE LET bonus == Head(bonuses)
           rest == processExpiredBonuses(Tail(bonuses))
           configs == RegistryGet(bonus.configType)
           newTime == bonus.timeRemaining - 100
       IN IF configs = {} \/ (\A c \in configs : c.lifetime = 0)
          THEN [updated |-> << bonus >> \o rest.updated, expired |-> rest.expired]
          ELSE IF newTime <= 0
               THEN [updated |-> rest.updated, expired |-> << bonus >> \o rest.expired]
               ELSE [updated |-> << [bonus EXCEPT !.timeRemaining = newTime] >> \o rest.updated,
                     expired |-> rest.expired]

\* The set of possible [newEggsEatenSince, newNextSpawnAt]
RECURSIVE resetExpiredBonusCounters(_, _, _)
resetExpiredBonusCounters(expired, eggsEatenSince, nextSpawnAt) ==
  IF expired = << >>
  THEN {[newEggsEatenSince |-> eggsEatenSince, newNextSpawnAt |-> nextSpawnAt]}
  ELSE LET bonus == Head(expired)
           configs == RegistryGet(bonus.configType)
       IN IF configs = {}
          THEN resetExpiredBonusCounters(Tail(expired), eggsEatenSince, nextSpawnAt)
          ELSE UNION {resetExpiredBonusCounters(
                        Tail(expired),
                        [eggsEatenSince EXCEPT ![bonus.configType] = 0],
                        [nextSpawnAt EXCEPT ![bonus.configType] = th]) :
                      th \in UNION {getRandomRespawnThreshold(c) : c \in configs}}

\* Faulty variant: the loop stops after the first spawnable type
incrementEggsEatenFirstOnly(spawnableBonuses, currentEggsEaten) ==
  [t \in DOMAIN currentEggsEaten |->
     currentEggsEaten[t]
       + (IF spawnableBonuses # << >> /\ spawnableBonuses[1].type = t THEN 1 ELSE 0)]

incrementEggsEaten(spawnableBonuses, currentEggsEaten) ==
  [t \in DOMAIN currentEggsEaten |->
     currentEggsEaten[t]
       + Cardinality({i \in 1 .. Len(spawnableBonuses) : spawnableBonuses[i].type = t})]

\* Faulty variant: a type is taken to be due one pickup early
RECURSIVE trySpawnBonusesOneEarly(_, _, _, _)
trySpawnBonusesOneEarly(spawnableBonuses, bonusState, snake, food) ==
  IF spawnableBonuses = << >> THEN {<< >>}
  ELSE LET config == Head(spawnableBonuses)
           eggsEaten == bonusState.eggsEatenSince[config.type]
           threshold == bonusState.nextSpawnAt[config.type]
           activeCount ==
             Cardinality({i \in 1 .. Len(bonusState.activeBonuses) :
                            bonusState.activeBonuses[i].configType = config.type})
           excludePositions ==
             Range(snake) \cup {food} \cup getBonusPositions(bonusState.activeBonuses)
           spawned ==
             UNION {IF eggsEaten + 1 >= threshold /\ activeCount < config.maxInstances
                       /\ r <= config.spawnChance
                    THEN {<< b >> : b \in UNION {createActiveBonus(config, position) :
                                                   position \in getRandomPosition(excludePositions)}}
                    ELSE {<< >>} : r \in RandomPercent}
       IN {first \o rest : first \in spawned,
                           rest \in trySpawnBonusesOneEarly(Tail(spawnableBonuses),
                                                            bonusState, snake, food)}

\* Faulty variant: the active instances of the type are not counted
RECURSIVE trySpawnBonusesPastCap(_, _, _, _)
trySpawnBonusesPastCap(spawnableBonuses, bonusState, snake, food) ==
  IF spawnableBonuses = << >> THEN {<< >>}
  ELSE LET config == Head(spawnableBonuses)
           eggsEaten == bonusState.eggsEatenSince[config.type]
           threshold == bonusState.nextSpawnAt[config.type]
           excludePositions ==
             Range(snake) \cup {food} \cup getBonusPositions(bonusState.activeBonuses)
           spawned ==
             UNION {IF eggsEaten >= threshold /\ r <= config.spawnChance
                    THEN {<< b >> : b \in UNION {createActiveBonus(config, position) :
                                                   position \in getRandomPosition(excludePositions)}}
                    ELSE {<< >>} : r \in RandomPercent}
       IN {first \o rest : first \in spawned,
                           rest \in trySpawnBonusesPastCap(Tail(spawnableBonuses),
                                                           bonusState, snake, food)}

\* The set of possible lists of newly spawned bonuses
RECURSIVE trySpawnBonuses(_, _, _, _)
trySpawnBonuses(spawnableBonuses, bonusState, snake, food) ==
  IF spawnableBonuses = << >> THEN {<< >>}
  ELSE LET config == Head(spawnableBonuses)
           eggsEaten == bonusState.eggsEatenSince[config.type]
           threshold == bonusState.nextSpawnAt[config.type]
           activeCount ==
             Cardinality({i \in 1 .. Len(bonusState.activeBonuses) :
                            bonusState.activeBonuses[i].configType = config.type})
           excludePositions ==
             Range(snake) \cup {food} \cup getBonusPositions(bonusState.activeBonuses)
           spawned ==
             UNION {IF eggsEaten >= threshold /\ activeCount < config.maxInstances
                       /\ r <= config.spawnChance
                    THEN {<< b >> : b \in UNION {createActiveBonus(config, position) :
                                                   position \in getRandomPosition(excludePositions)}}
                    ELSE {<< >>} : r \in RandomPercent}
       IN {first \o rest : first \in spawned,
                           rest \in trySpawnBonuses(Tail(spawnableBonuses), bonusState, snake, food)}

\* Faulty variant: cuts the snake down to minLength cells, before the tail pop
applyShrinkEffectToFloor(snake, shrinkAmount) ==
  LET minLength == 3
  IN IF Len(snake) > shrinkAmount + minLength - 1
     THEN SubSeq(snake, 1, minLength)
     ELSE snake

applyShrinkEffect(snake, shrinkAmount) ==
  LET minLength == 3
  IN IF Len(snake) > shrinkAmount + minLength - 1
     THEN SubSeq(snake, 1, Len(snake) - shrinkAmount)
     ELSE snake

\* 1-based index of the first bonus at position, 0 when there is none (-1 in the code)
findCollidedBonus(bonuses, position) ==
  LET hits == {i \in 1 .. Len(bonuses) :
                 bonuses[i].position.x = position.x /\ bonuses[i].position.y = position.y}
  IN IF hits = {} THEN 0 ELSE CHOOSE i \in hits : \A j \in hits : i <= j

\* Faulty variant: the bonuses listed after the collected one go with it
removeBonusAtIndexAndAfter(bonuses, index) == SubSeq(bonuses, 1, index - 1)

removeBonusAtIndex(bonuses, index) ==
  SubSeq(bonuses, 1, index - 1) \o SubSeq(bonuses, index + 1, Len(bonuses))

\* The set of possible [newFood, newScore, snakeGrew, newBonusState]
handleFoodCollision(newSnake, currentFood, currentScore, bonusState) ==
  LET foodConfig == REGULAR_EGG_CONFIG
      newScore == currentScore + foodConfig.minPoints
      snakeGrew == foodConfig.growsSnake
      bonusPositions == getBonusPositions(bonusState.activeBonuses)
      spawnableBonuses == getSpawnableBonuses
      counted == [bonusState EXCEPT
                    !.eggsEatenSince = incrementEggsEaten(spawnableBonuses, bonusState.eggsEatenSince)]
  IN UNION {{[newFood |-> newFood, newScore |-> newScore, snakeGrew |-> snakeGrew,
              newBonusState |-> [counted EXCEPT !.activeBonuses = @ \o spawnedBonuses]] :
               spawnedBonuses \in trySpawnBonuses(spawnableBonuses, counted, newSnake, newFood)} :
            newFood \in getRandomPosition(Range(newSnake) \cup bonusPositions)}

\* The set of possible [newSnake, newScore, snakeGrew, newBonusState]
\* (newSnake is the array the code shrinks in place)
handleBonusCollision(newSnake, collidedBonusIndex, currentScore, bonusState, currentSnakeGrew) ==
  LET collidedBonus == bonusState.activeBonuses[collidedBonusIndex]
      configs == RegistryGet(collidedBonus.configType)
  IN IF configs = {}
     THEN {[newSnake |-> newSnake, newScore |-> currentScore,
            snakeGrew |-> currentSnakeGrew, newBonusState |-> bonusState]}
     ELSE UNION {
            {[newSnake |-> IF config.effect.type = "shrink" /\ config.effect.value # 0
                           THEN applyShrinkEffect(newSnake, config.effect.value)
                           ELSE newSnake,
              newScore |-> currentScore + collidedBonus.points,
              snakeGrew |-> currentSnakeGrew \/ config.growsSnake,
              newBonusState |->
                [activeBonuses |-> removeBonusAtIndex(bonusState.activeBonuses, collidedBonusIndex),
                 eggsEatenSince |-> [bonusState.eggsEatenSince EXCEPT ![collidedBonus.configType] = 0],
                 nextSpawnAt |-> [bonusState.nextSpawnAt EXCEPT ![collidedBonus.configType] = th]]] :
               th \in getRandomRespawnThreshold(config)} : config \in configs}

(***************************************************************************)
(* GameScreen: the component's state                                       *)
(***************************************************************************)
VARIABLES
  difficulty,        \* the difficulty prop ('medium' unless given)
  currentSpeed,      \* useState: the tick interval's period, in ms
  gameState,         \* useState<GameState>
  directionRef,      \* useRef: the direction the last tick committed
  nextDirectionRef,  \* useRef: the buffered next direction
  tickTimerOn,       \* the tick effect's setInterval is scheduled
  bonusTimerOn,      \* the bonus timer effect's setInterval is scheduled
  lastOp,            \* history: the handler that ran last and its outcome
  burst              \* scheduler: the bonus timer is running on until expiry

vars == << GRID_WIDTH, GRID_HEIGHT, DateNow, AsyncStorage, updateCalls, difficulty, currentSpeed, gameState, directionRef, nextDirectionRef,
           tickTimerOn, bonusTimerOn, lastOp, burst >>

\* const newHead = { x: head.x + dir.x, y: head.y + dir.y }
candidateHead(prev, direction) ==
  LET dir == DIRECTIONS[direction]
      head == prev.snake[1]
  IN [x |-> head.x + dir.x, y |-> head.y + dir.y]

\* Faulty variant: the fatal tick also clears the score
gameOverStateScoreReset(prev) ==
  [prev EXCEPT !.isGameOver = TRUE, !.isRunning = FALSE, !.score = 0]

\* Faulty variant: the fatal tick leaves isRunning set
gameOverStateStillRunning(prev) == [prev EXCEPT !.isGameOver = TRUE]

\* Faulty variant: the fatal tick stops the session without marking it over
gameOverStateNotMarked(prev) == [prev EXCEPT !.isRunning = FALSE]

\* return { ...prev, isGameOver: true, isRunning: false }
gameOverState(prev) == [prev EXCEPT !.isGameOver = TRUE, !.isRunning = FALSE]

\* Faulty variant: the tail is never popped and collisions are not looked for
moveSnakeKeepsTail(prev, direction) ==
  {[prev EXCEPT !.snake = << candidateHead(prev, direction) >> \o prev.snake,
                !.direction = direction]}

\* Faulty variant: the food and a bonus collected on the same tick each add a
\* cell of their own (score, food and bonus state are left alone)
moveSnakeGrowsTwice(prev, direction) ==
  LET newHead == candidateHead(prev, direction)
      ateFoodThisTick == newHead.x = prev.food.x /\ newHead.y = prev.food.y
      bonusAhead == findCollidedBonus(prev.bonusState.activeBonuses, newHead) # 0
      tail == prev.snake[Len(prev.snake)]
  IN {[prev EXCEPT
         !.snake = IF ateFoodThisTick /\ bonusAhead
                   THEN << newHead >> \o prev.snake \o << tail >>
                   ELSE IF ateFoodThisTick \/ bonusAhead
                        THEN << newHead >> \o prev.snake
                        ELSE << newHead >> \o SubSeq(prev.snake, 1, Len(prev.snake) - 1),
         !.direction = direction]}

\* The tick updater past its guard, for a candidate head that is not fatal
moveSnake(prev, direction) ==
  LET newHead == candidateHead(prev, direction)
      grownSnake == << newHead >> \o prev.snake
      ateFoodThisTick == newHead.x = prev.food.x /\ newHead.y = prev.food.y
      noFood == [newFood |-> prev.food, newScore |-> prev.score, snakeGrew |-> FALSE,
                 newBonusState |-> prev.bonusState]
      afterFood == IF ateFoodThisTick
                   THEN handleFoodCollision(grownSnake, prev.food, prev.score, prev.bonusState)
                   ELSE {noFood}
      afterBonus(f) ==
        LET collidedBonusIndex == findCollidedBonus(f.newBonusState.activeBonuses, newHead)
        IN IF collidedBonusIndex # 0
           THEN handleBonusCollision(grownSnake, collidedBonusIndex, f.newScore,
                                     f.newBonusState, f.snakeGrew)
           ELSE {[newSnake |-> grownSnake, newScore |-> f.newScore,
                  snakeGrew |-> f.snakeGrew, newBonusState |-> f.newBonusState]}
  IN UNION {{[prev EXCEPT
                !.snake = IF b.snakeGrew THEN b.newSnake
                          ELSE SubSeq(b.newSnake, 1, Len(b.newSnake) - 1),
                !.food = f.newFood,
                !.bonusState = b.newBonusState,
                !.score = b.newScore,
                !.direction = direction] : b \in afterBonus(f)} : f \in afterFood}

\* Faulty variant: the updater has no guard
tickGuardDropped(prev) == FALSE

\* if (!prev.isRunning || prev.isGameOver) return prev
tickGuard(prev) == ~prev.isRunning \/ prev.isGameOver

\* The tick updater passed to setGameState: the set of possible next states
tickUpdater(prev, direction) ==
  IF tickGuard(prev) THEN {prev}
  ELSE IF checkCollision(candidateHead(prev, direction), prev.snake)
       THEN {gameOverState(prev)}
       ELSE moveSnake(prev, direction)

\* The snapshot prev as it stands once the tick updater has returned next.
\* The updater's newBonusState = { ...prev.bonusState } and the copies made
\* of it by handleFoodCollision and handleBonusCollision are shallow, so the
\* eggsEatenSince and nextSpawnAt objects that handleBonusCollision writes to
\* are prev's own, but for the eggsEatenSince that a food pickup in the same
\* tick has replaced by a fresh object.
prevAfterTick(prev, direction, next) ==
  LET newHead == candidateHead(prev, direction)
      ateFoodThisTick == newHead.x = prev.food.x /\ newHead.y = prev.food.y
      \* bonuses spawned by the food pickup are appended and never lie on
      \* newHead, so the index is the one found in the updater's list
      collidedBonusIndex == findCollidedBonus(prev.bonusState.activeBonuses, newHead)
      written == /\ collidedBonusIndex # 0
                 /\ RegistryGet(prev.bonusState.activeBonuses[collidedBonusIndex].configType) # {}
  IN IF tickGuard(prev) \/ checkCollision(newHead, prev.snake) \/ ~written
     THEN prev
     ELSE [prev EXCEPT
             !.bonusState.eggsEatenSince =
                IF ateFoodThisTick THEN @ ELSE next.bonusState.eggsEatenSince,
             !.bonusState.nextSpawnAt = next.bonusState.nextSpawnAt]

\* The bonus timer updater passed to setGameState
bonusTimerUpdater(prev) ==
  LET processed == processExpiredBonuses(prev.bonusState.activeBonuses)
  IN {[prev EXCEPT !.bonusState =
         [activeBonuses |-> processed.updated,
          eggsEatenSince |-> r.newEggsEatenSince,
          nextSpawnAt |-> r.newNextSpawnAt]] :
        r \in resetExpiredBonusCounters(processed.expired, prev.bonusState.eggsEatenSince,
                                        prev.bonusState.nextSpawnAt)}

(***************************************************************************)
(* History: what the last handler was and what it did, judged from the     *)
(* state it ran on.  No handler reads it.                                  *)
(***************************************************************************)
NoOp == [op |-> "init", arg |-> "none", outcome |-> "none", ateFood |-> FALSE,
         collected |-> "none", spawned |-> 0, expired |-> 0, lengthBefore |-> 0,
         pending |-> "none", overrode |-> FALSE, pickups |-> 0, dragonSeen |-> FALSE]

\* What the history keeps from one handler to the next:
\*   pending    - the last request since the last committing tick (or start)
\*                that was not the opposite of the committed direction
\*   overrode   - that request replaced an earlier, different one
\*   pickups    - regular eggs eaten since the start
\*   dragonSeen - a dragon egg has been active since the start
Carried ==
  [NoOp EXCEPT
     !.pending = lastOp.pending,
     !.overrode = lastOp.pending # "none" /\ lastOp.overrode,
     !.pickups = lastOp.pickups,
     !.dragonSeen = lastOp.dragonSeen]

DirectionHistory(newDirection) ==
  LET reversal == DIRECTIONS[newDirection].x = -DIRECTIONS[directionRef].x
                    /\ DIRECTIONS[newDirection].y = -DIRECTIONS[directionRef].y
  IN [Carried EXCEPT
        !.op = "direction",
        !.arg = newDirection,
        !.pending = IF reversal THEN @ ELSE newDirection,
        !.overrode = @ \/ (~reversal /\ lastOp.pending \notin {"none", newDirection})]

TickHistory(prev, direction, next) ==
  LET newHead == candidateHead(prev, direction)
      active == prev.isRunning /\ ~prev.isGameOver
      fatal == active /\ (newHead \notin Cells \/ \E i \in 2 .. Len(prev.snake) : prev.snake[i] = newHead)
      moved == active /\ ~fatal
      hit == {i \in 1 .. Len(prev.bonusState.activeBonuses) :
                prev.bonusState.activeBonuses[i].position = newHead}
      first == CHOOSE i \in hit : \A j \in hit : i <= j
      ate == moved /\ newHead = prev.food
  IN [Carried EXCEPT
        !.op = "tick",
        !.arg = direction,
        !.outcome = IF ~active THEN "inactive" ELSE IF fatal THEN "fatal" ELSE "moved",
        !.ateFood = ate,
        !.collected = IF moved /\ hit # {}
                      THEN prev.bonusState.activeBonuses[first].configType ELSE "none",
        !.spawned = IF ate
                    THEN Len(next.bonusState.activeBonuses) - Len(prev.bonusState.activeBonuses)
                    ELSE 0,
        !.lengthBefore = Len(prev.snake),
        !.pending = IF active THEN "none" ELSE @,
        !.pickups = IF ate THEN @ + 1 ELSE @,
        !.dragonSeen = @ \/ \E i \in 1 .. Len(next.bonusState.activeBonuses) :
                                 next.bonusState.activeBonuses[i].configType = "dragon-egg"]

\* The state after mount.  The sessions explored from it run within one
\* reading of the clock; ReplaySpec lets the clock move on.
Init ==
  /\ \E screen \in Screens : GRID_WIDTH = screen[1] /\ GRID_HEIGHT = screen[2]
  /\ DateNow = {0}
  /\ difficulty = "medium"
  /\ currentSpeed = calculateGameSpeed(3, difficulty)
  /\ gameState \in createInitialState
  /\ directionRef = "RIGHT"
  /\ nextDirectionRef = "RIGHT"
  /\ tickTimerOn = FALSE
  /\ bonusTimerOn = FALSE
  /\ lastOp = NoOp
  /\ burst = FALSE
  /\ AsyncStorage = null
  /\ updateCalls = NoCalls

\* Faulty variant: the buffered direction survives the restart
StartGameKeepsBuffer ==
  /\ ~gameState.isRunning \/ gameState.isGameOver
  /\ ~tickTimerOn /\ ~bonusTimerOn
  /\ \E newState \in createInitialState :
       gameState' = [newState EXCEPT !.isRunning = TRUE]
  /\ currentSpeed' = calculateGameSpeed(3, difficulty)
  /\ directionRef' = "RIGHT"
  /\ lastOp' = [NoOp EXCEPT !.op = "start", !.lengthBefore = Len(gameState.snake)]
  /\ UNCHANGED << GRID_WIDTH, GRID_HEIGHT, DateNow, AsyncStorage, updateCalls, difficulty, nextDirectionRef, tickTimerOn, bonusTimerOn >>

\* startGame: the TAP TO PLAY / PLAY AGAIN button.  The overlay holding it is
\* rendered while the session is not running, and the effects of that render
\* have run by the time the press is handled.
StartGame ==
  /\ ~gameState.isRunning \/ gameState.isGameOver
  /\ ~tickTimerOn /\ ~bonusTimerOn
  /\ \E newState \in createInitialState :
       gameState' = [newState EXCEPT !.isRunning = TRUE]
  /\ currentSpeed' = calculateGameSpeed(3, difficulty)
  /\ directionRef' = "RIGHT"
  /\ nextDirectionRef' = "RIGHT"
  /\ lastOp' = [NoOp EXCEPT !.op = "start", !.lengthBefore = Len(gameState.snake)]
  /\ UNCHANGED << GRID_WIDTH, GRID_HEIGHT, DateNow, AsyncStorage, updateCalls, difficulty, tickTimerOn, bonusTimerOn >>

\* Faulty variant: the request is compared with the buffered direction
handleDirectionChangeAgainstBuffer(newDirection) ==
  LET currentDir == DIRECTIONS[nextDirectionRef]
      newDir == DIRECTIONS[newDirection]
  IN /\ nextDirectionRef' =
          IF currentDir.x + newDir.x # 0 \/ currentDir.y + newDir.y # 0
          THEN newDirection
          ELSE nextDirectionRef
     /\ UNCHANGED << gameState, directionRef >>

\* Faulty variant: once a turn is buffered, later requests are dropped
handleDirectionChangeFirstWins(newDirection) ==
  LET currentDir == DIRECTIONS[directionRef]
      newDir == DIRECTIONS[newDirection]
  IN /\ nextDirectionRef' =
          IF (currentDir.x + newDir.x # 0 \/ currentDir.y + newDir.y # 0)
               /\ nextDirectionRef = directionRef
          THEN newDirection
          ELSE nextDirectionRef
     /\ UNCHANGED << gameState, directionRef >>

\* Faulty variant: every request is buffered
handleDirectionChangeUnchecked(newDirection) ==
  /\ nextDirectionRef' = newDirection
  /\ UNCHANGED << gameState, directionRef >>

\* handleDirectionChange(newDirection): D-pad, keyboard or swipe
handleDirectionChange(newDirection) ==
  LET currentDir == DIRECTIONS[directionRef]
      newDir == DIRECTIONS[newDirection]
  IN /\ nextDirectionRef' =
          IF currentDir.x + newDir.x # 0 \/ currentDir.y + newDir.y # 0
          THEN newDirection
          ELSE nextDirectionRef
     /\ UNCHANGED << gameState, directionRef >>

HandleDirectionChange ==
  /\ \E newDirection \in Direction :
       /\ handleDirectionChange(newDirection)
       /\ lastOp' = DirectionHistory(newDirection)
  /\ UNCHANGED currentSpeed
  /\ UNCHANGED << GRID_WIDTH, GRID_HEIGHT, DateNow, AsyncStorage, updateCalls, difficulty, tickTimerOn, bonusTimerOn >>

\* One firing of the tick effect's interval: setGameState(tick updater).  The
\* updater reads nextDirectionRef and writes directionRef past its guard.  The
\* speed effect (deps: snake.length, difficulty) runs after the render.
Tick ==
  /\ tickTimerOn
  /\ directionRef' = IF tickGuard(gameState) THEN directionRef ELSE nextDirectionRef
  /\ \E next \in tickUpdater(gameState, nextDirectionRef) :
       /\ gameState' = next
       /\ lastOp' = TickHistory(gameState, nextDirectionRef, next)
  /\ currentSpeed' = calculateGameSpeed(Len(gameState'.snake), difficulty)
  /\ UNCHANGED << GRID_WIDTH, GRID_HEIGHT, DateNow, AsyncStorage, updateCalls, difficulty, nextDirectionRef, tickTimerOn, bonusTimerOn >>

\* One firing of the bonus timer effect's interval: setGameState(timer updater)
BonusTimerTick ==
  /\ bonusTimerOn
  /\ \E next \in bonusTimerUpdater(gameState) :
       /\ gameState' = next
       /\ lastOp' = [Carried EXCEPT
                       !.op = "bonus-timer",
                       !.expired = Len(gameState.bonusState.activeBonuses)
                                     - Len(next.bonusState.activeBonuses)]
  /\ UNCHANGED currentSpeed
  /\ UNCHANGED << GRID_WIDTH, GRID_HEIGHT, DateNow, AsyncStorage, updateCalls, difficulty, directionRef, nextDirectionRef, tickTimerOn, bonusTimerOn >>

\* The tick effect (deps: isRunning, isGameOver, ...): its cleanup clears the
\* interval and it sets a new one only while the session is active
TickEffect ==
  /\ tickTimerOn # (gameState.isRunning /\ ~gameState.isGameOver)
  /\ tickTimerOn' = (gameState.isRunning /\ ~gameState.isGameOver)
  /\ lastOp' = [Carried EXCEPT !.op = "effect"]
  /\ UNCHANGED currentSpeed
  /\ UNCHANGED << GRID_WIDTH, GRID_HEIGHT, DateNow, AsyncStorage, updateCalls, difficulty, gameState, directionRef, nextDirectionRef, bonusTimerOn >>

\* The bonus timer effect (deps: activeBonuses.length, isRunning)
BonusTimerEffect ==
  /\ bonusTimerOn # (Len(gameState.bonusState.activeBonuses) > 0 /\ gameState.isRunning)
  /\ bonusTimerOn' = (Len(gameState.bonusState.activeBonuses) > 0 /\ gameState.isRunning)
  /\ lastOp' = [Carried EXCEPT !.op = "effect"]
  /\ UNCHANGED currentSpeed
  /\ UNCHANGED << GRID_WIDTH, GRID_HEIGHT, DateNow, AsyncStorage, updateCalls, difficulty, gameState, directionRef, nextDirectionRef, tickTimerOn >>

(***************************************************************************)
(* The schedules the model explores.  Outside a burst every handler may    *)
(* run, and a bonus receives at most MaxLooseTimerTicks timer callbacks.   *)
(* A burst starts right after the tick that spawned a bonus and lets only  *)
(* the bonus timer fire, until every active bonus has expired.             *)
(***************************************************************************)
Quiet == ~burst /\ burst' = FALSE

TimerTicksReceived(bonus) ==
  LET configs == RegistryGet(bonus.configType)
  IN IF configs = {} THEN 0
     ELSE (CHOOSE c \in configs : TRUE).lifetime - bonus.timeRemaining

LooseTimerTick ==
  /\ Quiet
  /\ \A i \in 1 .. Len(gameState.bonusState.activeBonuses) :
        TimerTicksReceived(gameState.bonusState.activeBonuses[i]) < 100 * MaxLooseTimerTicks
  /\ BonusTimerTick

BurstTimerTick ==
  /\ burst \/ (lastOp.op = "tick" /\ lastOp.spawned > 0)
  /\ BonusTimerTick
  /\ burst' = (gameState'.bonusState.activeBonuses # << >>)

Next ==
  \/ Quiet /\ StartGame
  \/ Quiet /\ HandleDirectionChange
  \/ Quiet /\ gameState.score < MaxScore /\ Tick
  \/ Quiet /\ TickEffect
  \/ Quiet /\ BonusTimerEffect
  \/ LooseTimerTick
  \/ BurstTimerTick

Spec == Init /\ [][Next]_vars

(***************************************************************************)
(* The same handlers while the clock moves on: Date.now() returns one of   *)
(* ClockReadings values.  Sessions are followed up to MaxReplayScore.      *)
(***************************************************************************)
ReplayInit ==
  /\ \E screen \in Screens : GRID_WIDTH = screen[1] /\ GRID_HEIGHT = screen[2]
  /\ DateNow = 0 .. ClockReadings - 1
  /\ difficulty = "medium"
  /\ currentSpeed = calculateGameSpeed(3, difficulty)
  /\ gameState \in createInitialState
  /\ directionRef = "RIGHT"
  /\ nextDirectionRef = "RIGHT"
  /\ tickTimerOn = FALSE
  /\ bonusTimerOn = FALSE
  /\ lastOp = NoOp
  /\ burst = FALSE
  /\ AsyncStorage = null
  /\ updateCalls = NoCalls

ReplayNext ==
  \/ Quiet /\ StartGame
  \/ Quiet /\ HandleDirectionChange
  \/ Quiet /\ gameState.score < MaxReplayScore /\ Tick
  \/ Quiet /\ TickEffect
  \/ Quiet /\ BonusTimerEffect
  \/ LooseTimerTick
  \/ BurstTimerTick

ReplaySpec == ReplayInit /\ [][ReplayNext]_vars

(***************************************************************************)
(* The tick updater as a function of the snapshot it is given: it is       *)
(* applied once to a running session whose snake, 3 to MaxInputLength      *)
(* cells long, lies in a row heading right with a shrink egg on the cell   *)
(* in front of its head.                                                   *)
(***************************************************************************)
RowSnake(headX, y, length) == [i \in 1 .. length |-> [x |-> headX - i + 1, y |-> y]]

ShrinkEggAhead(length, headX) ==
  LET y == GRID_HEIGHT \div 2
  IN   {[newState EXCEPT
           !.snake = RowSnake(headX, y, length),
           !.food = food,
           !.bonusState.activeBonuses =
              << [id |-> [time |-> 0, suffix |-> 0],
                  configType |-> SHRINK_EGG_CONFIG.type,
                  position |-> [x |-> headX + 1, y |-> y],
                  points |-> points,
                  timeRemaining |-> SHRINK_EGG_CONFIG.lifetime,
                  spawnedAt |-> 0] >>,
           !.score = length - 3,
           !.isRunning = TRUE] :
          newState \in createInitialState,
          points \in SHRINK_EGG_CONFIG.minPoints .. SHRINK_EGG_CONFIG.maxPoints,
          food \in getRandomPosition(Range(RowSnake(headX, y, length))
                                       \cup {[x |-> headX + 1, y |-> y]})}

TickInputInit ==
  /\ \E screen \in Screens : GRID_WIDTH = screen[1] /\ GRID_HEIGHT = screen[2]
  /\ DateNow = {0}
  /\ difficulty = "medium"
  /\ \E length \in 3 .. MaxInputLength :
       \E headX \in length - 1 .. GRID_WIDTH - 2 :
          /\ gameState \in ShrinkEggAhead(length, headX)
          /\ currentSpeed = calculateGameSpeed(length, difficulty)
  /\ directionRef = "RIGHT"
  /\ nextDirectionRef \in {"RIGHT", "UP"}
  /\ tickTimerOn = TRUE
  /\ bonusTimerOn = TRUE
  /\ lastOp = NoOp
  /\ burst = FALSE
  /\ AsyncStorage = null
  /\ updateCalls = NoCalls

TickOnInput == lastOp.op = "init" /\ Quiet /\ Tick

TickInputSpec == TickInputInit /\ [][TickOnInput]_vars

(***************************************************************************)
(* calculateGameSpeed as a function of its input: the speed effect is run  *)
(* on snake lengths up to MaxSpeedLength, at each difficulty.              *)
(***************************************************************************)
SpeedInputInit ==
  /\ \E screen \in Screens : GRID_WIDTH = screen[1] /\ GRID_HEIGHT = screen[2]
  /\ DateNow = {0}
  /\ difficulty \in GameDifficulty
  /\ currentSpeed = calculateGameSpeed(3, difficulty)
  /\ gameState \in createInitialState
  /\ directionRef = "RIGHT"
  /\ nextDirectionRef = "RIGHT"
  /\ tickTimerOn = FALSE
  /\ bonusTimerOn = FALSE
  /\ lastOp = [NoOp EXCEPT !.lengthBefore = 3]
  /\ burst = FALSE
  /\ AsyncStorage = null
  /\ updateCalls = NoCalls

\* useEffect(() => setCurrentSpeed(calculateGameSpeed(snake.length, difficulty)))
\* for a snake of snakeLength cells; the history keeps the length
SpeedEffect ==
  \E snakeLength \in 0 .. MaxSpeedLength :
     /\ currentSpeed' = calculateGameSpeed(snakeLength, difficulty)
     /\ lastOp' = [NoOp EXCEPT !.op = "speed", !.lengthBefore = snakeLength]
     /\ UNCHANGED << GRID_WIDTH, GRID_HEIGHT, DateNow, AsyncStorage, updateCalls, difficulty, gameState, directionRef,
                     nextDirectionRef, tickTimerOn, bonusTimerOn, burst >>

SpeedInputSpec == SpeedInputInit /\ [][SpeedEffect]_vars

(***************************************************************************)
(* handleBonusCollision and processExpiredBonuses as functions of a bonus  *)
(* list that holds an instance whose type id the registry does not know:   *)
(* the tick updater and the bonus timer updater are applied once to a      *)
(* running session whose snake lies in a row heading right with such an    *)
(* instance on the cell in front of its head, alone or next to a dragon    *)
(* egg that is fresh or one callback from expiry.                          *)
(***************************************************************************)
\* A type id no bonusRegistry.register call has been made for
UnregisteredType == "mystery-egg"

UnregisteredBonusAhead(length, headX) ==
  LET y == GRID_HEIGHT \div 2
      ahead == [x |-> headX + 1, y |-> y]
      stranger == [id |-> [time |-> 0, suffix |-> 1],
                   configType |-> UnregisteredType, position |-> ahead,
                   points |-> 7, timeRemaining |-> 100, spawnedAt |-> 0]
      dragonEggs(food) ==
        {[id |-> [time |-> 0, suffix |-> 0],
          configType |-> DRAGON_EGG_CONFIG.type, position |-> position,
          points |-> DRAGON_EGG_CONFIG.minPoints, timeRemaining |-> timeRemaining,
          spawnedAt |-> 0] :
           position \in getRandomPosition(Range(RowSnake(headX, y, length)) \cup {ahead, food}),
           timeRemaining \in {100, DRAGON_EGG_CONFIG.lifetime}}
  IN UNION {{[newState EXCEPT
                !.snake = RowSnake(headX, y, length),
                !.food = food,
                !.bonusState.activeBonuses = activeBonuses,
                !.score = length - 3,
                !.isRunning = TRUE] :
               activeBonuses \in {<< stranger >>}
                                  \cup {<< egg, stranger >> : egg \in dragonEggs(food)}
                                  \cup {<< stranger, egg >> : egg \in dragonEggs(food)}} :
            newState \in createInitialState,
            food \in getRandomPosition(Range(RowSnake(headX, y, length)) \cup {ahead})}

UnregisteredInputInit ==
  /\ \E screen \in Screens : GRID_WIDTH = screen[1] /\ GRID_HEIGHT = screen[2]
  /\ DateNow = {0}
  /\ difficulty = "medium"
  /\ \E length \in 3 .. MaxInputLength :
       \E headX \in length - 1 .. GRID_WIDTH - 2 :
          /\ gameState \in UnregisteredBonusAhead(length, headX)
          /\ currentSpeed = calculateGameSpeed(length, difficulty)
  /\ directionRef = "RIGHT"
  /\ nextDirectionRef \in {"RIGHT", "UP"}
  /\ tickTimerOn = TRUE
  /\ bonusTimerOn = TRUE
  /\ lastOp = NoOp
  /\ burst = FALSE
  /\ AsyncStorage = null
  /\ updateCalls = NoCalls

BonusTimerOnInput == lastOp.op = "init" /\ Quiet /\ BonusTimerTick

UnregisteredInputNext == TickOnInput \/ BonusTimerOnInput

UnregisteredInputSpec == UnregisteredInputInit /\ [][UnregisteredInputNext]_vars

(***************************************************************************)
(* The tick updater as a function of a snapshot in which the food lies on  *)
(* the cell in front of the head and a bonus of a registered type lies on  *)
(* that cell too, or on another free cell.  The updater finds the food and *)
(* the bonus by two separate comparisons with the new head, so it resolves *)
(* both when they share the cell.                                          *)
(***************************************************************************)
FoodAndBonusAhead(length, headX) ==
  LET y == GRID_HEIGHT \div 2
      ahead == [x |-> headX + 1, y |-> y]
      snake == RowSnake(headX, y, length)
  IN UNION {{[newState EXCEPT
                !.snake = snake,
                !.food = ahead,
                !.bonusState.activeBonuses = << bonus >>,
                !.score = length - 3,
                !.isRunning = TRUE] :
               bonus \in UNION {createActiveBonus(getSpawnableBonuses[i], position) :
                                  i \in 1 .. Len(getSpawnableBonuses),
                                  position \in {ahead} \cup getRandomPosition(Range(snake) \cup {ahead})}} :
            newState \in createInitialState}

PickupInputInit ==
  /\ \E screen \in Screens : GRID_WIDTH = screen[1] /\ GRID_HEIGHT = screen[2]
  /\ DateNow = {0}
  /\ difficulty = "medium"
  /\ \E length \in 3 .. MaxInputLength :
       \E headX \in length - 1 .. GRID_WIDTH - 2 :
          /\ gameState \in FoodAndBonusAhead(length, headX)
          /\ currentSpeed = calculateGameSpeed(length, difficulty)
  /\ directionRef = "RIGHT"
  /\ nextDirectionRef \in {"RIGHT", "UP"}
  /\ tickTimerOn = TRUE
  /\ bonusTimerOn = TRUE
  /\ lastOp = NoOp
  /\ burst = FALSE
  /\ AsyncStorage = null
  /\ updateCalls = NoCalls

PickupInputSpec == PickupInputInit /\ [][TickOnInput]_vars

(***************************************************************************)
(* The tick interval and the bonus timer interval racing for one bonus: a  *)
(* running session whose snake lies in a row heading right, with its first *)
(* dragon egg one or two cells in front of the head and one or two timer   *)
(* callbacks from expiry.  Both intervals are set and fire in any order.   *)
(***************************************************************************)
ExpiringBonusAhead(length, headX) ==
  LET y == GRID_HEIGHT \div 2
      snake == RowSnake(headX, y, length)
      ahead == {[x |-> headX + d, y |-> y] : d \in 1 .. 2}
      grown == [t \in SpawnableTypes |-> length - 3]
  IN UNION {{[newState EXCEPT
                !.snake = snake,
                !.food = food,
                !.bonusState.activeBonuses = << [bonus EXCEPT !.timeRemaining = left] >>,
                !.bonusState.eggsEatenSince = grown,
                !.score = length - 3,
                !.isRunning = TRUE] :
               bonus \in UNION {createActiveBonus(DRAGON_EGG_CONFIG, position) :
                                  position \in ahead \cap Cells},
               left \in {100 * k : k \in 1 .. MaxRaceCallbacks},
               food \in getRandomPosition(Range(snake) \cup ahead)} :
            newState \in {st \in createInitialState :
                            \A t \in SpawnableTypes :
                               (st.bonusState.nextSpawnAt[t] <= length - 3) <=> (t = "dragon-egg")}}

RaceInputInit ==
  /\ \E screen \in Screens : GRID_WIDTH = screen[1] /\ GRID_HEIGHT = screen[2]
  /\ DateNow = {0}
  /\ difficulty = "medium"
  /\ \E length \in 3 .. MaxInputLength :
       \E headX \in length - 1 .. GRID_WIDTH - 2 :
          /\ gameState \in ExpiringBonusAhead(length, headX)
          /\ currentSpeed = calculateGameSpeed(length, difficulty)
          /\ lastOp = [NoOp EXCEPT !.pickups = length - 3, !.dragonSeen = TRUE]
  /\ directionRef = "RIGHT"
  /\ nextDirectionRef = "RIGHT"
  /\ tickTimerOn = TRUE
  /\ bonusTimerOn = TRUE
  /\ burst = FALSE
  /\ AsyncStorage = null
  /\ updateCalls = NoCalls

\* The bonus timer is followed while no bonus is further than
\* MaxRaceCallbacks callbacks from expiry
RaceTimerTick ==
  /\ Quiet
  /\ \A i \in 1 .. Len(gameState.bonusState.activeBonuses) :
        gameState.bonusState.activeBonuses[i].timeRemaining <= 100 * MaxRaceCallbacks
  /\ BonusTimerTick

RaceInputNext ==
  \/ Quiet /\ lastOp.pickups < MaxRacePickups /\ Tick
  \/ RaceTimerTick

RaceInputSpec == RaceInputInit /\ [][RaceInputNext]_vars

(***************************************************************************)
(* updateHighScoreIfNeeded(currentScore), called by the game-over effect   *)
(* and not awaited: a call is a read of the item, then the comparison, and *)
(* then a write when the score is higher.  Each await is a step, so calls  *)
(* made by game-overs that follow one another closely interleave.          *)
(***************************************************************************)
HighScoreInit ==
  /\ \E screen \in Screens : GRID_WIDTH = screen[1] /\ GRID_HEIGHT = screen[2]
  /\ DateNow = {0}
  /\ difficulty = "medium"
  /\ currentSpeed = calculateGameSpeed(3, difficulty)
  /\ gameState \in createInitialState
  /\ directionRef = "RIGHT"
  /\ nextDirectionRef = "RIGHT"
  /\ tickTimerOn = FALSE
  /\ bonusTimerOn = FALSE
  /\ lastOp = NoOp
  /\ burst = FALSE
  /\ AsyncStorage \in {null} \cup {toString(score) : score \in FinalScores}
  /\ updateCalls = NoCalls

GameUnchanged ==
  UNCHANGED << GRID_WIDTH, GRID_HEIGHT, DateNow, difficulty, currentSpeed, gameState,
               directionRef, nextDirectionRef, tickTimerOn, bonusTimerOn, lastOp, burst >>

\* const highScore = await getHighScore(), once the read has returned value:
\* the comparison follows at once, and the call returns unless it has to write
afterGetHighScore(c, value) ==
  IF updateCalls[c].currentScore > value
  THEN [updateCalls EXCEPT ![c].pc = "setHighScore", ![c].highScore = value]
  ELSE [updateCalls EXCEPT ![c].pc = "returned", ![c].highScore = value,
                           ![c].result = value]

\* updateHighScoreIfNeeded(currentScore) is called: getItem is issued
UpdateHighScoreIfNeeded(c, currentScore) ==
  /\ updateCalls[c].pc = "none"
  /\ updateCalls' = [updateCalls EXCEPT ![c].pc = "getHighScore",
                                        ![c].currentScore = currentScore]
  /\ UNCHANGED AsyncStorage
  /\ GameUnchanged

\* getHighScore: AsyncStorage.getItem resolves
GetItemResolves(c) ==
  /\ updateCalls[c].pc = "getHighScore"
  /\ updateCalls' = afterGetHighScore(c, parseStoredValue(AsyncStorage))
  /\ UNCHANGED AsyncStorage
  /\ GameUnchanged

\* getHighScore: AsyncStorage.getItem rejects, and the catch returns 0
GetItemRejects(c) ==
  /\ updateCalls[c].pc = "getHighScore"
  /\ updateCalls' = afterGetHighScore(c, 0)
  /\ UNCHANGED AsyncStorage
  /\ GameUnchanged

\* setHighScore: AsyncStorage.setItem resolves; the call returns currentScore
SetItemResolves(c) ==
  /\ updateCalls[c].pc = "setHighScore"
  /\ AsyncStorage' = toString(updateCalls[c].currentScore)
  /\ updateCalls' = [updateCalls EXCEPT ![c].pc = "returned",
                                        ![c].result = updateCalls[c].currentScore]
  /\ GameUnchanged

\* setHighScore: AsyncStorage.setItem rejects, and the catch logs a warning
SetItemRejects(c) ==
  /\ updateCalls[c].pc = "setHighScore"
  /\ updateCalls' = [updateCalls EXCEPT ![c].pc = "returned",
                                        ![c].result = updateCalls[c].currentScore]
  /\ UNCHANGED AsyncStorage
  /\ GameUnchanged

HighScoreNext ==
  \E c \in 1 .. MaxCalls :
     \/ \E currentScore \in FinalScores : UpdateHighScoreIfNeeded(c, currentScore)
     \/ GetItemResolves(c)
     \/ GetItemRejects(c)
     \/ SetItemResolves(c)
     \/ SetItemRejects(c)

HighScoreSpec == HighScoreInit /\ [][HighScoreNext]_vars

(***************************************************************************)
(* Properties                                                              *)
(***************************************************************************)
\* The step just taken was a firing of the tick interval
TickStep == lastOp'.op = "tick"

\* The step just taken was a firing of the bonus timer interval
BonusTimerStep == lastOp'.op = "bonus-timer"

\* The step just taken was a direction request
DirectionStep == lastOp'.op = "direction"

\* The step just taken was a press of the start button
StartStep == lastOp'.op = "start"

\* The session is active: running and not over
Active == gameState.isRunning /\ ~gameState.isGameOver

\* The head a tick taken now would try, and whether it is fatal, stated without
\* checkCollision
TickCandidate == candidateHead(gameState, nextDirectionRef)

OutsideGrid(h) == h.x < 0 \/ h.x > GRID_WIDTH - 1 \/ h.y < 0 \/ h.y > GRID_HEIGHT - 1

OnBody(h, snake) == h \in {snake[i] : i \in 2 .. Len(snake)}

\* The head the last tick tried (a fatal tick leaves the snake where it was)
LastCandidate == candidateHead(gameState, lastOp.arg)

\* C1: in every reachable state the snake has at least 3 segments, ticks that
\* collect a shrink bonus included.
SnakeLengthAtLeastThree == Len(gameState.snake) >= 3

\* A tick has just collected a shrink egg and the snake lost 5 cells to it
ShrinkEggCollected ==
  /\ lastOp.op = "tick"
  /\ lastOp.collected = "shrink-egg"
  /\ Len(gameState.snake) = lastOp.lengthBefore - SHRINK_EGG_CONFIG.effect.value

\* C2: in every reachable state no two snake segments occupy the same cell.
NoTwoSegmentsShareACell ==
  \A i, j \in 1 .. Len(gameState.snake) :
     i # j => gameState.snake[i] # gameState.snake[j]

\* A tick has just tried to move the head onto the snake's own body
RanIntoItself ==
  /\ lastOp.op = "tick"
  /\ lastOp.outcome = "fatal"
  /\ ~OutsideGrid(LastCandidate)
  /\ OnBody(LastCandidate, gameState.snake)

\* C3: after every completed tick the food is on no snake segment and on no
\* active bonus.
FoodClearAfterTick ==
  lastOp.op = "tick" =>
    /\ gameState.food \notin Range(gameState.snake)
    /\ \A i \in 1 .. Len(gameState.bonusState.activeBonuses) :
          gameState.bonusState.activeBonuses[i].position # gameState.food

\* A tick has just eaten the food, placed the new food and spawned a bonus
AteFoodAndSpawned ==
  /\ lastOp.op = "tick"
  /\ lastOp.ateFood
  /\ lastOp.spawned > 0
  /\ gameState.bonusState.activeBonuses # << >>

\* C4: a tick on a state with isRunning = false or isGameOver = true returns
\* the state it was given.
InactiveTickReturnsInput ==
  [][(TickStep /\ ~Active) => gameState' = gameState]_vars

\* The tick interval has just fired on a session that was already over
TickedWhileOver ==
  /\ lastOp.op = "tick"
  /\ lastOp.outcome = "inactive"
  /\ gameState.isGameOver

\* C5: a tick whose candidate head is fatal sets isGameOver, clears isRunning
\* and leaves snake, food, score, active bonuses, counters and thresholds as
\* they were.
FatalTickOnlySetsFlags ==
  [][(TickStep /\ Active
        /\ (OutsideGrid(TickCandidate) \/ OnBody(TickCandidate, gameState.snake)))
     => /\ gameState'.isGameOver
        /\ ~gameState'.isRunning
        /\ gameState'.snake = gameState.snake
        /\ gameState'.food = gameState.food
        /\ gameState'.score = gameState.score
        /\ gameState'.bonusState.activeBonuses = gameState.bonusState.activeBonuses
        /\ gameState'.bonusState.eggsEatenSince = gameState.bonusState.eggsEatenSince
        /\ gameState'.bonusState.nextSpawnAt = gameState.bonusState.nextSpawnAt]_vars

\* A fatal tick has just ended a session that had points and an active bonus
FatalTickWithPointsAndBonus ==
  /\ lastOp.op = "tick"
  /\ lastOp.outcome = "fatal"
  /\ gameState.isGameOver
  /\ gameState.score > 0
  /\ gameState.bonusState.activeBonuses # << >>

\* C6: checkCollision(head, snake) is true exactly when head is outside the
\* grid or equals a segment at index >= 1 of the pre-move snake (the tail cell
\* included, the head cell excluded); a tick whose candidate head has x = -1,
\* x = GRID_WIDTH, y = -1 or y = GRID_HEIGHT ends the session.
CheckCollisionIsWallOrBody ==
  /\ [](\A h \in [x : -1 .. GRID_WIDTH, y : -1 .. GRID_HEIGHT] :
          checkCollision(h, gameState.snake)
            <=> (OutsideGrid(h) \/ OnBody(h, gameState.snake)))
  /\ [][(TickStep /\ Active
           /\ (\/ TickCandidate.x = -1
               \/ TickCandidate.x = GRID_WIDTH
               \/ TickCandidate.y = -1
               \/ TickCandidate.y = GRID_HEIGHT))
        => (gameState'.isGameOver /\ ~gameState'.isRunning)]_vars

\* A tick has just been fatal because the candidate head was the tail's cell
RanIntoTailCell ==
  /\ lastOp.op = "tick"
  /\ lastOp.outcome = "fatal"
  /\ LastCandidate = gameState.snake[Len(gameState.snake)]

\* C7: isGameOver becomes true only on a tick of a running session whose
\* candidate head is fatal; once true it stays true, with isRunning false,
\* under ticks, bonus-timer ticks and direction changes; a start replaces the
\* whole state with a fresh running one.
GameOverOnlyByFatalTickUntilStart ==
  [][/\ (~gameState.isGameOver /\ gameState'.isGameOver)
          => (TickStep /\ Active
                /\ (OutsideGrid(TickCandidate) \/ OnBody(TickCandidate, gameState.snake)))
     /\ (gameState.isGameOver /\ ~StartStep)
          => (gameState'.isGameOver /\ ~gameState'.isRunning /\ ~gameState.isRunning)
     /\ StartStep
          => /\ gameState'.isRunning /\ ~gameState'.isGameOver
             /\ Len(gameState'.snake) = 3
             /\ gameState'.score = 0
             /\ gameState'.direction = "RIGHT"
             /\ gameState'.bonusState.activeBonuses = << >>
             /\ \A t \in SpawnableTypes : gameState'.bonusState.eggsEatenSince[t] = 0]_vars

\* The bonus timer or a direction request has just acted on a finished session
ActedOnWhileOver ==
  /\ gameState.isGameOver
  /\ ~gameState.isRunning
  /\ lastOp.op \in {"bonus-timer", "direction"}

\* C8: a bonus-timer callback that fires while the session is not running
\* changes no bonus's remaining time, expires no bonus and resets no counter
\* or threshold.
StaleBonusTimerIsNoOp ==
  [][(BonusTimerStep /\ ~Active) => gameState'.bonusState = gameState.bonusState]_vars

\* C9: the score never decreases across a tick or a bonus-timer tick, and it
\* is 0 right after a start.
ScoreNeverDecreasesInSession ==
  [][/\ (TickStep \/ BonusTimerStep) => gameState'.score >= gameState.score
     /\ StartStep => gameState'.score = 0]_vars

\* A tick has just collected a bonus and its points were added to the score
BonusPointsScored ==
  /\ lastOp.op = "tick"
  /\ lastOp.collected # "none"
  /\ gameState.score >= 10

\* The exact opposite of a direction, tabulated
Opposite ==
  [d \in Direction |->
     CASE d = "UP"    -> "DOWN"
       [] d = "DOWN"  -> "UP"
       [] d = "LEFT"  -> "RIGHT"
       [] d = "RIGHT" -> "LEFT"]

\* C10: handleDirectionChange(d) leaves the buffered direction alone when d is
\* the exact opposite of the committed direction and sets it to d otherwise;
\* it changes neither the committed direction nor the game state.
OppositeOfCommittedIsRejected ==
  [][DirectionStep
     => /\ nextDirectionRef' = IF lastOp'.arg = Opposite[directionRef]
                               THEN nextDirectionRef
                               ELSE lastOp'.arg
        /\ directionRef' = directionRef
        /\ gameState' = gameState]_vars

\* A request for the opposite of the committed direction has just been turned
\* down while a turn was buffered
ReversalRejectedWithTurnBuffered ==
  /\ lastOp.op = "direction"
  /\ lastOp.arg = Opposite[directionRef]
  /\ nextDirectionRef # directionRef
  /\ nextDirectionRef # lastOp.arg

\* C11: whatever requests are made between two ticks, the next tick commits
\* and moves in the last request that was not rejected, or in the previously
\* committed direction when there was none.
LastValidRequestIsCommitted ==
  [][(TickStep /\ Active)
     => LET d == IF lastOp.pending = "none" THEN directionRef ELSE lastOp.pending
        IN /\ directionRef' = d
           /\ \/ gameState'.isGameOver
              \/ /\ gameState'.direction = d
                 /\ gameState'.snake[1].x = gameState.snake[1].x + DIRECTIONS[d].x
                 /\ gameState'.snake[1].y = gameState.snake[1].y + DIRECTIONS[d].y]_vars

\* A tick has just moved the snake in a request that replaced an earlier,
\* different request made since the tick before
CollapsedRequestsCommitted ==
  /\ lastOp.op = "tick"
  /\ lastOp.outcome = "moved"
  /\ lastOp.overrode
  /\ directionRef = lastOp.arg

\* Points of the bonus a tick taken now would collect, 0 when there is none
BonusPointsAhead ==
  LET ahead == {i \in 1 .. Len(gameState.bonusState.activeBonuses) :
                  gameState.bonusState.activeBonuses[i].position = TickCandidate}
  IN IF ahead = {} THEN 0
     ELSE gameState.bonusState.activeBonuses[CHOOSE i \in ahead : \A j \in ahead : i <= j].points

\* C12: a non-fatal tick whose candidate head is the food cell moves the head
\* onto it, adds exactly 1 to the score (and a bonus's points only if a bonus
\* is collected too), lengthens the snake by exactly 1 and puts the food on a
\* cell of no segment of the new snake.
FoodPickupGrowsByOne ==
  [][(TickStep /\ Active /\ TickCandidate = gameState.food
        /\ ~OutsideGrid(TickCandidate) /\ ~OnBody(TickCandidate, gameState.snake))
     => /\ gameState'.snake[1] = gameState.food
        /\ gameState'.score = gameState.score + 1 + BonusPointsAhead
        /\ Len(gameState'.snake) = Len(gameState.snake) + 1
        /\ Tail(gameState'.snake) = gameState.snake
        /\ gameState'.food \notin Range(gameState'.snake)]_vars

\* The first tick of a session to eat the food has just completed
FirstEggEaten ==
  /\ lastOp.op = "tick"
  /\ lastOp.ateFood
  /\ lastOp.pickups = 1
  /\ gameState.score = 1
  /\ Len(gameState.snake) = 4

\* The first bonus on the cell a tick taken now would move the head to is a
\* shrink egg
ShrinkEggIsAhead ==
  \E i \in 1 .. Len(gameState.bonusState.activeBonuses) :
     /\ gameState.bonusState.activeBonuses[i].position = TickCandidate
     /\ gameState.bonusState.activeBonuses[i].configType = "shrink-egg"
     /\ \A j \in 1 .. i - 1 : gameState.bonusState.activeBonuses[j].position # TickCandidate

Instances(state, type) ==
  {i \in 1 .. Len(state.bonusState.activeBonuses) :
     state.bonusState.activeBonuses[i].configType = type}

\* C14: the dragon egg (spawnChance 1.0) has its threshold drawn within
\* [5,15] at the start; no dragon egg exists before the threshold-th regular
\* pickup of the session, and the tick making that pickup creates exactly one.
DragonEggSpawnsAtThreshold ==
  /\ [](~lastOp.dragonSeen
          => /\ Instances(gameState, "dragon-egg") = {}
             /\ gameState.bonusState.nextSpawnAt["dragon-egg"] \in 5 .. 15
             /\ gameState.bonusState.eggsEatenSince["dragon-egg"] = lastOp.pickups
             /\ lastOp.pickups < gameState.bonusState.nextSpawnAt["dragon-egg"])
  /\ [][/\ (~lastOp.dragonSeen /\ Instances(gameState', "dragon-egg") # {})
             => /\ TickStep
                /\ lastOp'.ateFood
                /\ lastOp'.pickups = gameState.bonusState.nextSpawnAt["dragon-egg"]
        /\ (TickStep /\ ~lastOp.dragonSeen /\ lastOp'.ateFood
              /\ lastOp'.pickups = gameState.bonusState.nextSpawnAt["dragon-egg"])
             => Cardinality(Instances(gameState', "dragon-egg")) = 1]_vars

\* The tick making the threshold-th pickup of the session has just spawned the
\* session's first dragon egg
FirstDragonEggSpawned ==
  /\ lastOp.op = "tick"
  /\ lastOp.ateFood
  /\ lastOp.spawned = 1
  /\ lastOp.pickups = gameState.bonusState.nextSpawnAt["dragon-egg"]
  /\ gameState.score = lastOp.pickups
  /\ Cardinality(Instances(gameState, "dragon-egg")) = 1

\* The registered configuration of a bonus type
ConfigOf(type) == CHOOSE c \in Range(registered) : c.type = type

\* Bonus-timer ticks an active bonus has received, from its remaining time
TicksReceived(bonus) == (ConfigOf(bonus.configType).lifetime - bonus.timeRemaining) \div 100

\* C15: while the session runs, an uncollected bonus of lifetime L stays active
\* through its first L/100 - 1 bonus-timer ticks and is removed on the
\* (L/100)-th, which sets its type's counter to 0 and draws its threshold from
\* [minRespawnAfterEggs, maxRespawnAfterEggs].
BonusExpiresOnLastTimerTick ==
  /\ [](\A i \in 1 .. Len(gameState.bonusState.activeBonuses) :
          LET bonus == gameState.bonusState.activeBonuses[i]
          IN /\ bonus.timeRemaining = ConfigOf(bonus.configType).lifetime - 100 * TicksReceived(bonus)
             /\ TicksReceived(bonus) \in 0 .. ConfigOf(bonus.configType).lifetime \div 100 - 1)
  /\ [][(BonusTimerStep /\ gameState.isRunning)
        => LET before == gameState.bonusState.activeBonuses
               last(bonus) == TicksReceived(bonus) + 1 = ConfigOf(bonus.configType).lifetime \div 100
               kept == SelectSeq(before, LAMBDA bonus : ~last(bonus))
           IN /\ Len(gameState'.bonusState.activeBonuses) = Len(kept)
              /\ \A i \in 1 .. Len(kept) :
                    /\ gameState'.bonusState.activeBonuses[i]
                         = [kept[i] EXCEPT !.timeRemaining = @ - 100]
                    /\ TicksReceived(gameState'.bonusState.activeBonuses[i])
                         = TicksReceived(kept[i]) + 1
              /\ \A i \in 1 .. Len(before) :
                    last(before[i])
                      => /\ gameState'.bonusState.eggsEatenSince[before[i].configType] = 0
                         /\ gameState'.bonusState.nextSpawnAt[before[i].configType]
                              \in ConfigOf(before[i].configType).minRespawnAfterEggs
                                    .. ConfigOf(before[i].configType).maxRespawnAfterEggs]_vars

\* The bonus timer has just removed a bonus of a running session and reset
\* its type's counter
BonusJustExpired ==
  /\ lastOp.op = "bonus-timer"
  /\ lastOp.expired > 0
  /\ gameState.isRunning
  /\ \E t \in SpawnableTypes :
        /\ Instances(gameState, t) = {}
        /\ gameState.bonusState.eggsEatenSince[t] = 0
        /\ gameState.score > 0

\* C16: every bonus of a spawn pass is placed clear of the snake, the food,
\* the bonuses already active and the bonuses spawned earlier in the pass, so
\* no two active bonuses occupy the same cell.
NoTwoBonusesShareACell ==
  \A i, j \in 1 .. Len(gameState.bonusState.activeBonuses) :
     i # j => gameState.bonusState.activeBonuses[i].position
                # gameState.bonusState.activeBonuses[j].position

\* C17: a start from the idle or the game-over screen yields a running state
\* with score 0, a 3-segment horizontal snake whose head is at the board
\* centre, committed and buffered direction RIGHT, the food off the snake, no
\* active bonus, every spawnable type's counter 0 and its threshold within
\* [minSpawnAfterEggs, maxSpawnAfterEggs]; nothing of the earlier state is kept.
StartYieldsFreshSession ==
  [][StartStep
     => LET cx == GRID_WIDTH \div 2
            cy == GRID_HEIGHT \div 2
        IN /\ ~gameState.isRunning \/ gameState.isGameOver
           /\ gameState'.isRunning /\ ~gameState'.isGameOver
           /\ gameState'.score = 0
           /\ gameState'.snake = << [x |-> cx, y |-> cy], [x |-> cx - 1, y |-> cy],
                                    [x |-> cx - 2, y |-> cy] >>
           /\ gameState'.direction = "RIGHT" /\ gameState'.nextDirection = "RIGHT"
           /\ directionRef' = "RIGHT" /\ nextDirectionRef' = "RIGHT"
           /\ gameState'.food \in Cells \ Range(gameState'.snake)
           /\ gameState'.bonusState.activeBonuses = << >>
           /\ DOMAIN gameState'.bonusState.eggsEatenSince = SpawnableTypes
           /\ DOMAIN gameState'.bonusState.nextSpawnAt = SpawnableTypes
           /\ \A t \in SpawnableTypes :
                 /\ gameState'.bonusState.eggsEatenSince[t] = 0
                 /\ gameState'.bonusState.nextSpawnAt[t]
                      \in ConfigOf(t).minSpawnAfterEggs .. ConfigOf(t).maxSpawnAfterEggs]_vars

\* A start has just replaced a session whose snake had grown past three
\* segments, and the new session runs with a three-segment snake
RestartedAfterGameOver ==
  /\ lastOp.op = "start"
  /\ lastOp.lengthBefore > 3
  /\ gameState.isRunning
  /\ Len(gameState.snake) = 3

\* The step just taken ran the speed effect on a given length
SpeedStep == lastOp'.op = "speed"

\* C18: calculateGameSpeed(length, difficulty) is
\* min(baseSpeed + length * speedIncrease, maxSpeedCap) at each of the four
\* difficulty levels, so it never exceeds the level's cap.
SpeedIsCappedLinear ==
  [][SpeedStep
     => LET base == CASE difficulty = "easy" -> 150 [] difficulty = "medium" -> 100
                      [] difficulty = "hard" -> 70 [] difficulty = "extreme" -> 50
            cap == CASE difficulty = "easy" -> 300 [] difficulty = "medium" -> 250
                     [] difficulty = "hard" -> 200 [] difficulty = "extreme" -> 150
            linear == base + lastOp'.lengthBefore * 2
        IN /\ currentSpeed' <= cap
           /\ currentSpeed' <= linear
           /\ currentSpeed' = cap \/ currentSpeed' = linear]_vars

\* The speed has just been computed for a snake long enough for the cap to cut
\* the linear value
SpeedCapReached ==
  /\ lastOp.op = "speed"
  /\ currentSpeed = DIFFICULTY_SETTINGS[difficulty].maxSpeedCap
  /\ DIFFICULTY_SETTINGS[difficulty].baseSpeed + 2 * lastOp.lengthBefore > currentSpeed

\* C19: the game speeds up as the snake grows: the interval between ticks used
\* for a longer snake is never longer than the one used for a shorter snake.
LongerSnakeTicksNoSlower ==
  [][(TickStep /\ Len(gameState'.snake) > Len(gameState.snake))
     => currentSpeed' <= currentSpeed]_vars

\* C20: a tick leaves the snapshot it was given as it was: once the updater
\* has returned, the previous snapshot's snake, food, score and bonus state
\* (eggsEatenSince and nextSpawnAt included) still hold their pre-tick values.
TickLeavesPreviousSnapshotIntact ==
  [][TickStep => prevAfterTick(gameState, nextDirectionRef, gameState') = gameState]_vars

\* The active bonuses of a list whose type id is absent from the registry
Unregistered(bonuses) ==
  SelectSeq(bonuses, LAMBDA bonus : \A i \in 1 .. Len(registered) :
                                      registered[i].type # bonus.configType)

\* The bonus on the cell a tick taken now would move the head to is of a type
\* absent from the registry
UnregisteredBonusIsAhead ==
  LET index == findCollidedBonus(gameState.bonusState.activeBonuses, TickCandidate)
  IN /\ index # 0
     /\ Unregistered(<< gameState.bonusState.activeBonuses[index] >>) # << >>

\* C21: a tick whose head lands on an active bonus of a type absent from the
\* registry completes as a tick that met no bonus: the snake moves without
\* growing, and score, food, active bonuses, counters and thresholds are
\* unchanged; a bonus-timer tick leaves every such instance as it was.
UnregisteredBonusIsIgnored ==
  [][/\ (TickStep /\ Active /\ UnregisteredBonusIsAhead /\ TickCandidate # gameState.food
            /\ ~OutsideGrid(TickCandidate) /\ ~OnBody(TickCandidate, gameState.snake))
          => /\ gameState'.isRunning /\ ~gameState'.isGameOver
             /\ gameState'.snake
                  = << TickCandidate >> \o SubSeq(gameState.snake, 1, Len(gameState.snake) - 1)
             /\ gameState'.score = gameState.score
             /\ gameState'.food = gameState.food
             /\ gameState'.bonusState = gameState.bonusState
     /\ BonusTimerStep
          => Unregistered(gameState'.bonusState.activeBonuses)
               = Unregistered(gameState.bonusState.activeBonuses)]_vars

\* A tick has just moved the head onto a bonus of an unregistered type, which
\* is still listed under the head, next to a dragon egg
SteppedOnUnregisteredBonus ==
  /\ lastOp.op = "tick"
  /\ lastOp.outcome = "moved"
  /\ lastOp.collected = UnregisteredType
  /\ Len(gameState.bonusState.activeBonuses) = 2
  /\ \E i \in 1 .. 2 :
        /\ gameState.bonusState.activeBonuses[i].configType = UnregisteredType
        /\ gameState.bonusState.activeBonuses[i].position = gameState.snake[1]

\* What the random draws behind a game state came out as: the food cell, the
\* thresholds, and each active bonus's cell, points and id suffix (a spawn
\* chance draw shows in whether the bonus is listed)
Drawn(state) ==
  [food |-> state.food,
   nextSpawnAt |-> state.bonusState.nextSpawnAt,
   bonuses |-> [i \in 1 .. Len(state.bonusState.activeBonuses) |->
                  [configType |-> state.bonusState.activeBonuses[i].configType,
                   position |-> state.bonusState.activeBonuses[i].position,
                   points |-> state.bonusState.activeBonuses[i].points,
                   suffix |-> state.bonusState.activeBonuses[i].id.suffix]]]

\* C22: given the same random draws and the same inputs, two runs go through
\* the same game states: whatever state a second run that has followed this
\* one so far could be taken to by the same start command, tick or bonus-timer
\* tick with draws that come out the same, it is the state this run is taken to.
ReplayYieldsSameStates ==
  [][/\ StartStep
          => \A other \in {[newState EXCEPT !.isRunning = TRUE] : newState \in createInitialState} :
                Drawn(other) = Drawn(gameState') => other = gameState'
     /\ TickStep
          => \A other \in tickUpdater(gameState, nextDirectionRef) :
                Drawn(other) = Drawn(gameState') => other = gameState'
     /\ BonusTimerStep
          => \A other \in bonusTimerUpdater(gameState) :
                Drawn(other) = Drawn(gameState') => other = gameState']_vars

\* The cell next to the head in the direction a tick taken now would commit
CellAhead ==
  [x |-> gameState.snake[1].x + DIRECTIONS[nextDirectionRef].x,
   y |-> gameState.snake[1].y + DIRECTIONS[nextDirectionRef].y]

\* C23: a non-fatal tick that collects neither the food nor a bonus yields the
\* candidate head followed by the previous snake without its last segment
\* (same length), and leaves food, score and bonus state unchanged.
PlainTickShiftsSnake ==
  [][(TickStep /\ Active
        /\ ~OutsideGrid(CellAhead) /\ ~OnBody(CellAhead, gameState.snake)
        /\ CellAhead # gameState.food
        /\ CellAhead \notin getBonusPositions(gameState.bonusState.activeBonuses))
     => /\ gameState'.snake
             = << CellAhead >> \o SubSeq(gameState.snake, 1, Len(gameState.snake) - 1)
        /\ Len(gameState'.snake) = Len(gameState.snake)
        /\ gameState'.food = gameState.food
        /\ gameState'.score = gameState.score
        /\ gameState'.bonusState = gameState.bonusState]_vars

\* A tick has just moved a grown snake without collecting anything, past a
\* bonus that stays active
MovedWithoutCollecting ==
  /\ lastOp.op = "tick"
  /\ lastOp.outcome = "moved"
  /\ ~lastOp.ateFood
  /\ lastOp.collected = "none"
  /\ lastOp.lengthBefore > 3
  /\ Len(gameState.snake) = lastOp.lengthBefore
  /\ gameState.bonusState.activeBonuses # << >>

\* C24: no tick makes the snake more than one cell longer, a tick that
\* resolves both a regular pickup and the pickup of a growing bonus included.
TickGrowsByAtMostOne ==
  [][TickStep => Len(gameState'.snake) <= Len(gameState.snake) + 1]_vars

\* A tick has just eaten the food and collected a dragon egg lying on the same
\* cell, scoring both, and the snake is one cell longer
FoodAndGrowingBonusOnOneTick ==
  /\ lastOp.op = "tick"
  /\ lastOp.ateFood
  /\ lastOp.collected = "dragon-egg"
  /\ gameState.score > lastOp.lengthBefore - 3 + REGULAR_EGG_CONFIG.minPoints
  /\ gameState.bonusState.activeBonuses = << >>
  /\ Len(gameState.snake) = lastOp.lengthBefore + 1

\* The step just taken spawned, collected or expired an instance of the type
JustSpawned(type) ==
  /\ TickStep
  /\ lastOp'.ateFood
  /\ Cardinality(Instances(gameState', type)) > Cardinality(Instances(gameState, type))

JustCollected(type) == TickStep /\ lastOp'.collected = type

JustExpired(type) ==
  /\ BonusTimerStep
  /\ Cardinality(Instances(gameState', type)) < Cardinality(Instances(gameState, type))

\* C25: each type's counter eggsEatenSince[T] is the number of regular pickups
\* since the latest of the session's start and T's last spawn, collection and
\* expiry: it is 0 after each of these, one more after any other tick that
\* eats the food, and what it was after any other step.
CounterCountsPickupsSinceLastEvent ==
  [][\A type \in SpawnableTypes :
       gameState'.bonusState.eggsEatenSince[type]
         = IF StartStep \/ JustSpawned(type) \/ JustCollected(type) \/ JustExpired(type)
           THEN 0
           ELSE IF TickStep /\ lastOp'.ateFood
                THEN gameState.bonusState.eggsEatenSince[type] + 1
                ELSE gameState.bonusState.eggsEatenSince[type]]_vars

\* The registered types with a lifetime, the regular egg apart
TypesWithLifetime ==
  {registered[i].type : i \in {j \in 1 .. Len(registered) :
                                 registered[j].lifetime > 0 /\ registered[j].type # "regular-egg"}}

\* The step being taken is a tick that picks up the regular egg
FoodPickupStep ==
  /\ TickStep
  /\ Active
  /\ ~OutsideGrid(CellAhead)
  /\ ~OnBody(CellAhead, gameState.snake)
  /\ CellAhead = gameState.food

\* C26: a tick that picks up the regular egg adds exactly 1 to the counter of
\* every registered type with a lifetime other than the regular egg, types
\* with an active instance included; a tick that does not pick it up adds to
\* no counter.
PickupIncrementsEveryCounter ==
  [][/\ FoodPickupStep
          => \A type \in TypesWithLifetime :
                gameState'.bonusState.eggsEatenSince[type]
                  = gameState.bonusState.eggsEatenSince[type] + 1
     /\ (TickStep /\ ~FoodPickupStep)
          => \A type \in TypesWithLifetime :
                gameState'.bonusState.eggsEatenSince[type]
                  <= gameState.bonusState.eggsEatenSince[type]]_vars

\* A tick has just eaten the food while a dragon egg was active, and the
\* dragon egg's counter went past its threshold
CountedWhileBonusActive ==
  /\ lastOp.op = "tick"
  /\ lastOp.ateFood
  /\ lastOp.spawned = 0
  /\ Instances(gameState, "dragon-egg") # {}
  /\ gameState.bonusState.eggsEatenSince["dragon-egg"]
       > gameState.bonusState.nextSpawnAt["dragon-egg"]

\* The step being taken lists more instances of the type than there were
Created(type) ==
  Cardinality(Instances(gameState', type)) > Cardinality(Instances(gameState, type))

\* C27: an instance of type T is created only by a tick that picks up the
\* regular egg, and only if the counter of T, with that pickup counted, has
\* reached T's threshold and fewer than maxInstances instances of T are
\* active; no other tick, no bonus-timer tick, no direction change and no
\* start creates one.
BonusCreatedOnlyByDuePickup ==
  [][\A type \in SpawnableTypes :
       Created(type)
         => /\ FoodPickupStep
            /\ gameState.bonusState.eggsEatenSince[type] + 1
                 >= gameState.bonusState.nextSpawnAt[type]
            /\ Cardinality(Instances(gameState, type)) < ConfigOf(type).maxInstances]_vars

\* A tick has just spawned a golden apple on a pickup that brought its
\* counter up to its threshold
GoldenAppleSpawnedWhenDue ==
  /\ lastOp.op = "tick"
  /\ lastOp.ateFood
  /\ lastOp.spawned >= 1
  /\ Cardinality(Instances(gameState, "golden-apple")) = 1
  /\ gameState.bonusState.eggsEatenSince["golden-apple"]
       = gameState.bonusState.nextSpawnAt["golden-apple"]

\* C28: in every reachable state each bonus type has at most maxInstances
\* active instances, which is 1 for every registered type.
AtMostMaxInstancesPerType ==
  \A i \in 1 .. Len(registered) :
     /\ registered[i].maxInstances = 1
     /\ Cardinality(Instances(gameState, registered[i].type)) <= 1

\* A pickup on which the dragon egg was due once more has just added no
\* second one to the dragon egg, shrink egg and golden apple that are active
ThreeTypesActiveOneEach ==
  /\ lastOp.op = "tick"
  /\ lastOp.ateFood
  /\ gameState.bonusState.eggsEatenSince["dragon-egg"]
       >= gameState.bonusState.nextSpawnAt["dragon-egg"]
  /\ \A type \in {"dragon-egg", "shrink-egg", "golden-apple"} :
        Cardinality(Instances(gameState, type)) = 1

\* The step being taken is a tick that moves the head onto an active bonus
\* of a registered type
BonusPickupStep ==
  /\ TickStep
  /\ Active
  /\ ~OutsideGrid(CellAhead)
  /\ ~OnBody(CellAhead, gameState.snake)
  /\ \E i \in 1 .. Len(gameState.bonusState.activeBonuses) :
        gameState.bonusState.activeBonuses[i].position = CellAhead
  /\ Unregistered(gameState.bonusState.activeBonuses) = << >>

\* C29: each active bonus carries a point value within [minPoints, maxPoints]
\* of its type, which no step changes while the bonus stays active; a tick
\* whose head lands on an active bonus adds exactly that value to the score,
\* removes that instance and no other, sets its type's counter to 0 and its
\* type's threshold within [minRespawnAfterEggs, maxRespawnAfterEggs], and
\* leaves the other types' counters and thresholds as they were.
CollectionScoresStoredPoints ==
  /\ [](\A i \in 1 .. Len(gameState.bonusState.activeBonuses) :
          LET bonus == gameState.bonusState.activeBonuses[i]
          IN bonus.points \in ConfigOf(bonus.configType).minPoints
                                .. ConfigOf(bonus.configType).maxPoints)
  /\ [][/\ ~StartStep
             => \A i \in 1 .. Len(gameState.bonusState.activeBonuses) :
                   \A j \in 1 .. Len(gameState'.bonusState.activeBonuses) :
                      LET before == gameState.bonusState.activeBonuses[i]
                          after == gameState'.bonusState.activeBonuses[j]
                      IN (after.id = before.id /\ after.configType = before.configType
                            /\ after.position = before.position)
                           => after.points = before.points
        /\ BonusPickupStep
             => LET bonuses == gameState.bonusState.activeBonuses
                    index == CHOOSE i \in 1 .. Len(bonuses) :
                               /\ bonuses[i].position = CellAhead
                               /\ \A j \in 1 .. i - 1 : bonuses[j].position # CellAhead
                    type == bonuses[index].configType
                IN /\ gameState'.score = gameState.score + bonuses[index].points
                   /\ gameState'.bonusState.activeBonuses
                        = [k \in 1 .. Len(bonuses) - 1 |->
                             IF k < index THEN bonuses[k] ELSE bonuses[k + 1]]
                   /\ gameState'.bonusState.eggsEatenSince[type] = 0
                   /\ gameState'.bonusState.nextSpawnAt[type]
                        \in ConfigOf(type).minRespawnAfterEggs .. ConfigOf(type).maxRespawnAfterEggs
                   /\ \A other \in SpawnableTypes \ {type} :
                         /\ gameState'.bonusState.eggsEatenSince[other]
                              = gameState.bonusState.eggsEatenSince[other]
                         /\ gameState'.bonusState.nextSpawnAt[other]
                              = gameState.bonusState.nextSpawnAt[other]]_vars

\* A tick has just collected the golden apple while another bonus stays
\* active, and the golden apple is counted and awaited afresh
GoldenAppleCollected ==
  /\ lastOp.op = "tick"
  /\ lastOp.collected = "golden-apple"
  /\ Instances(gameState, "golden-apple") = {}
  /\ gameState.bonusState.activeBonuses # << >>
  /\ gameState.bonusState.eggsEatenSince["golden-apple"] = 0
  /\ gameState.bonusState.eggsEatenSince["dragon-egg"] > 0

\* C30: each spawnable type's threshold nextSpawnAt[T] lies within
\* [minSpawnAfterEggs, maxSpawnAfterEggs] until T is first collected or
\* expires in the session, and within [minRespawnAfterEggs,
\* maxRespawnAfterEggs] from then on: it is drawn from the first range at
\* mount and by every start, from the second by every collection and expiry
\* of T, and no other step changes it.
ThresholdWithinItsRange ==
  /\ [](lastOp.op \in {"init", "start"}
          => \A type \in SpawnableTypes :
                gameState.bonusState.nextSpawnAt[type]
                  \in ConfigOf(type).minSpawnAfterEggs .. ConfigOf(type).maxSpawnAfterEggs)
  /\ [][\A type \in SpawnableTypes :
          IF StartStep
          THEN gameState'.bonusState.nextSpawnAt[type]
                 \in ConfigOf(type).minSpawnAfterEggs .. ConfigOf(type).maxSpawnAfterEggs
          ELSE IF JustCollected(type) \/ JustExpired(type)
               THEN gameState'.bonusState.nextSpawnAt[type]
                      \in ConfigOf(type).minRespawnAfterEggs .. ConfigOf(type).maxRespawnAfterEggs
               ELSE gameState'.bonusState.nextSpawnAt[type]
                      = gameState.bonusState.nextSpawnAt[type]]_vars

\* The golden apple has gone and its threshold, drawn anew, is below the
\* range a session starts with, while the crystal gem still awaits its first
\* spawn
GoldenAppleThresholdRedrawn ==
  /\ gameState.isRunning
  /\ Instances(gameState, "golden-apple") = {}
  /\ gameState.bonusState.nextSpawnAt["golden-apple"] < GOLDEN_APPLE_CONFIG.minSpawnAfterEggs
  /\ gameState.bonusState.nextSpawnAt["crystal-gem"] >= CRYSTAL_GEM_CONFIG.minSpawnAfterEggs

\* Bound on the catalogues the sort is tried on
MaxCatalogueLength == 4

\* Catalogues with ties: the first configs registered, with priorities
\* drawn from two values
TiedCatalogues ==
  {[i \in 1 .. MaxCatalogueLength |-> [registered[i] EXCEPT !.priority = p[i]]] :
     p \in [1 .. MaxCatalogueLength -> {40, 50}]}

\* Place of a type in the order of registration
RegistrationIndex(type) == CHOOSE i \in 1 .. Len(registered) : registered[i].type = type

\* a comes before b: higher priority, or the same priority and registered first
EvaluatedBefore(a, b) ==
  \/ a.priority > b.priority
  \/ a.priority = b.priority /\ RegistrationIndex(a.type) < RegistrationIndex(b.type)

\* The bonuses a tick has just appended to the active list
NewlySpawned ==
  SubSeq(gameState'.bonusState.activeBonuses,
         Len(gameState.bonusState.activeBonuses) + 1,
         Len(gameState'.bonusState.activeBonuses))

\* C31: within one spawn pass the types are evaluated in descending priority
\* order, types of equal priority in registration order; with the registered
\* catalogue the order is dragon-egg, shrink-egg, golden-apple, crystal-gem,
\* the regular egg is never evaluated, and the bonuses one pass creates are
\* appended in that order.
SpawnPassFollowsPriority ==
  /\ []([i \in 1 .. Len(getSpawnableBonuses) |-> getSpawnableBonuses[i].type]
          = << "dragon-egg", "shrink-egg", "golden-apple", "crystal-gem" >>)
  /\ [](\A catalogue \in TiedCatalogues :
          LET sorted == SortByPriority(catalogue)
          IN /\ Len(sorted) = Len(catalogue)
             /\ Range(sorted) = Range(catalogue)
             /\ \A i \in 1 .. Len(sorted) - 1 : EvaluatedBefore(sorted[i], sorted[i + 1]))
  /\ [][TickStep /\ lastOp'.ateFood
          => \A i \in 1 .. Len(NewlySpawned) :
                /\ NewlySpawned[i].configType # "regular-egg"
                /\ \A j \in i + 1 .. Len(NewlySpawned) :
                      EvaluatedBefore(ConfigOf(NewlySpawned[i].configType),
                                      ConfigOf(NewlySpawned[j].configType))]_vars

\* One pickup has just created bonuses of two types, the dragon egg ahead of
\* the shrink egg in the active list
TwoTypesSpawnedInOnePass ==
  /\ lastOp.op = "tick"
  /\ lastOp.spawned = 2
  /\ LET bonuses == gameState.bonusState.activeBonuses
     IN /\ Len(bonuses) >= 2
        /\ bonuses[Len(bonuses) - 1].configType = "dragon-egg"
        /\ bonuses[Len(bonuses)].configType = "shrink-egg"

\* The position lies on the grid
OnGrid(p) == p.x \in 0 .. GRID_WIDTH - 1 /\ p.y \in 0 .. GRID_HEIGHT - 1

\* C32: in every reachable state every snake segment, the food and every
\* active bonus are at integer coordinates with 0 <= x < GRID_WIDTH and
\* 0 <= y < GRID_HEIGHT.
EverythingIsOnTheGrid ==
  /\ \A i \in 1 .. Len(gameState.snake) : OnGrid(gameState.snake[i])
  /\ OnGrid(gameState.food)
  /\ \A i \in 1 .. Len(gameState.bonusState.activeBonuses) :
        OnGrid(gameState.bonusState.activeBonuses[i].position)

\* A tick has moved the head onto the last column while a bonus is active
HeadAtTheEdgeWithBonusActive ==
  /\ lastOp.op = "tick"
  /\ lastOp.outcome = "moved"
  /\ gameState.snake[1].x = GRID_WIDTH - 1
  /\ gameState.bonusState.activeBonuses # << >>

\* C33: within a session the direction a tick commits is never the exact
\* opposite of the one the previous tick committed, and the buffered direction
\* is never the opposite of the committed one; hence the candidate head of a
\* running session is never the snake's second segment.
NoReversalBetweenTicks ==
  /\ [](nextDirectionRef # Opposite[directionRef])
  /\ [](Active => CellAhead # gameState.snake[2])
  /\ [][TickStep /\ Active => /\ directionRef' = nextDirectionRef
                              /\ directionRef' # Opposite[directionRef]]_vars

\* Two turns have brought the snake to move leftwards, against the direction
\* the session started in, and a request to turn back to the right was dropped
HeadingBackAfterTwoTurns ==
  /\ lastOp.op = "direction"
  /\ lastOp.arg = "RIGHT"
  /\ Active
  /\ directionRef = "LEFT"
  /\ nextDirectionRef = "LEFT"
  /\ gameState.snake[1].x < gameState.snake[2].x

\* C34: after every completed tick no active bonus is on a cell that a snake
\* segment is on.
NoBonusUnderTheSnakeAfterTick ==
  (lastOp.op = "tick" /\ lastOp.outcome = "moved")
    => \A i \in 1 .. Len(gameState.bonusState.activeBonuses) :
          gameState.bonusState.activeBonuses[i].position \notin Range(gameState.snake)

\* The cells of a running session a tick can move the head to
MovingTickStep ==
  /\ TickStep
  /\ Active
  /\ ~OutsideGrid(CellAhead)
  /\ ~OnBody(CellAhead, gameState.snake)

\* Places in the active list of the bonuses on the cell ahead, and of those one
\* timer callback from expiry
AheadInList ==
  {i \in 1 .. Len(gameState.bonusState.activeBonuses) :
     gameState.bonusState.activeBonuses[i].position = CellAhead}

DueInList ==
  {i \in 1 .. Len(gameState.bonusState.activeBonuses) :
     gameState.bonusState.activeBonuses[i].timeRemaining <= 100}

\* The list without the places in gone
RECURSIVE Without(_, _, _)
Without(list, gone, i) ==
  IF i > Len(list) THEN << >>
  ELSE (IF i \in gone THEN << >> ELSE << list[i] >>) \o Without(list, gone, i + 1)

\* The type's counter is 0 and its threshold drawn anew after the step
ResetIn(type) ==
  /\ gameState'.bonusState.eggsEatenSince[type] = 0
  /\ gameState'.bonusState.nextSpawnAt[type]
       \in ConfigOf(type).minRespawnAfterEggs .. ConfigOf(type).maxRespawnAfterEggs

\* C35: however ticks and bonus-timer ticks interleave, a bonus instance
\* leaves the active list once, by collection or by expiry.  A moving tick
\* takes out the first bonus on the head's new cell and nothing else, adds its
\* points once and resets its type's counter and threshold; a bonus-timer tick
\* takes out the bonuses that have run out and nothing else, adds no points and
\* resets their types; no step does both, and no other tick and no direction
\* request takes a bonus out.
EachBonusLeavesOnce ==
  [][LET bonuses == gameState.bonusState.activeBonuses
         first == IF AheadInList = {} THEN {}
                  ELSE {CHOOSE i \in AheadInList : \A j \in AheadInList : i <= j}
         ate == IF CellAhead = gameState.food THEN 1 ELSE 0
         kept == Without(bonuses, first, 1)
         lasting == Without(bonuses, DueInList, 1)
     IN /\ MovingTickStep
           => /\ SubSeq(gameState'.bonusState.activeBonuses, 1, Len(kept)) = kept
              /\ Len(gameState'.bonusState.activeBonuses) = Len(kept) + lastOp'.spawned
              /\ gameState'.score
                   = gameState.score + ate
                       + (IF first = {} THEN 0 ELSE bonuses[CHOOSE i \in first : TRUE].points)
              /\ \A type \in SpawnableTypes :
                    IF \E i \in first : bonuses[i].configType = type
                    THEN ResetIn(type)
                    ELSE /\ gameState'.bonusState.eggsEatenSince[type]
                              = gameState.bonusState.eggsEatenSince[type] + ate
                         /\ gameState'.bonusState.nextSpawnAt[type]
                              = gameState.bonusState.nextSpawnAt[type]
        /\ BonusTimerStep
           => /\ gameState'.bonusState.activeBonuses
                   = [i \in 1 .. Len(lasting) |->
                        [lasting[i] EXCEPT !.timeRemaining = @ - 100]]
              /\ gameState'.score = gameState.score
              /\ \A type \in SpawnableTypes :
                    IF \E i \in DueInList : bonuses[i].configType = type
                    THEN ResetIn(type)
                    ELSE /\ gameState'.bonusState.eggsEatenSince[type]
                              = gameState.bonusState.eggsEatenSince[type]
                         /\ gameState'.bonusState.nextSpawnAt[type]
                              = gameState.bonusState.nextSpawnAt[type]
        /\ (~MovingTickStep /\ ~BonusTimerStep /\ ~StartStep)
           => /\ gameState'.bonusState = gameState.bonusState
              /\ gameState'.score = gameState.score]_vars

\* The tick interval won the race for a bonus that was about to run out: the
\* bonus was collected, and the bonus timer, firing next, found nothing left
CollectedThenTimerFoundNothing ==
  /\ lastOp.op = "bonus-timer"
  /\ lastOp.expired = 0
  /\ gameState.isRunning
  /\ gameState.bonusState.activeBonuses = << >>
  /\ gameState.score >= lastOp.pickups + DRAGON_EGG_CONFIG.minPoints
  /\ gameState.bonusState.eggsEatenSince["dragon-egg"] = 0

\* C36: in every reachable state every active bonus of a timed type has
\* 0 < timeRemaining <= its type's lifetime, and timeRemaining changes only by
\* a bonus-timer tick, which takes exactly 100 off: a bonus starts with its
\* lifetime, keeps its time through every tick and direction request, and
\* loses 100 with every bonus-timer tick it stays through.
TimeRemainingWithinLifetime ==
  /\ [](\A i \in 1 .. Len(gameState.bonusState.activeBonuses) :
          LET bonus == gameState.bonusState.activeBonuses[i]
          IN ConfigOf(bonus.configType).lifetime > 0
               => /\ bonus.timeRemaining > 0
                  /\ bonus.timeRemaining <= ConfigOf(bonus.configType).lifetime)
  /\ [][LET before == gameState.bonusState.activeBonuses
            after == gameState'.bonusState.activeBonuses
            first == IF MovingTickStep /\ AheadInList # {}
                     THEN {CHOOSE i \in AheadInList : \A j \in AheadInList : i <= j}
                     ELSE {}
            kept == Without(before, first, 1)
            lasting == Without(before, DueInList, 1)
        IN /\ BonusTimerStep
              => /\ Len(after) = Len(lasting)
                 /\ \A i \in 1 .. Len(lasting) :
                       after[i].timeRemaining = lasting[i].timeRemaining - 100
           /\ (~BonusTimerStep /\ ~StartStep)
              => /\ Len(after) >= Len(kept)
                 /\ \A i \in 1 .. Len(kept) :
                       after[i].timeRemaining = kept[i].timeRemaining
                 /\ \A i \in Len(kept) + 1 .. Len(after) :
                       after[i].timeRemaining = ConfigOf(after[i].configType).lifetime]_vars

\* A tick has moved the snake while a bonus that has been through a timer
\* callback stayed active, 100 short of its lifetime as before the tick
TickLeftTheClockAlone ==
  /\ lastOp.op = "tick"
  /\ lastOp.outcome = "moved"
  /\ lastOp.collected = "none"
  /\ \E i \in 1 .. Len(gameState.bonusState.activeBonuses) :
        gameState.bonusState.activeBonuses[i].timeRemaining
          = ConfigOf(gameState.bonusState.activeBonuses[i].configType).lifetime - 100

\* The three states of a session
Idle == ~gameState.isRunning /\ ~gameState.isGameOver

Running == gameState.isRunning /\ ~gameState.isGameOver

GameOver == ~gameState.isRunning /\ gameState.isGameOver

\* C37: isRunning and isGameOver are never both true, so the state is exactly
\* one of Idle, Running and GameOver; and no tick, bonus-timer tick, direction
\* request or start brings a session that has left Idle back to it.
IdleIsNeverReentered ==
  /\ [](~(gameState.isRunning /\ gameState.isGameOver))
  /\ [](Cardinality({s \in {"idle", "running", "over"} :
                       \/ s = "idle" /\ Idle
                       \/ s = "running" /\ Running
                       \/ s = "over" /\ GameOver}) = 1)
  /\ [][~Idle => ~Idle']_vars

\* A session that had grown the snake ended, and the start button has put a
\* new one in the Running state
RestartedFromGameOver ==
  /\ lastOp.op = "start"
  /\ lastOp.lengthBefore > 3
  /\ Running

\* The high score the storage holds
StoredHighScore == parseStoredValue(AsyncStorage)

\* The call has returned with the step just taken
Returns(c) == updateCalls[c].pc # "returned" /\ updateCalls'[c].pc = "returned"

\* C38: however concurrent updateHighScoreIfNeeded(score) calls interleave,
\* the stored high score never decreases, and each call returns the larger of
\* the stored high score and its score.
StoredHighScoreNeverDecreases ==
  [][/\ parseStoredValue(AsyncStorage') >= StoredHighScore
     /\ \A c \in 1 .. MaxCalls :
           Returns(c)
             => updateCalls'[c].result
                  = IF updateCalls[c].currentScore > StoredHighScore
                    THEN updateCalls[c].currentScore
                    ELSE StoredHighScore]_vars

\* A tick taken now would eat the regular egg, so the egg has to be relocated
RelocationAhead ==
  /\ Active
  /\ ~OutsideGrid(CellAhead)
  /\ ~OnBody(CellAhead, gameState.snake)
  /\ CellAhead = gameState.food

\* The cells getRandomPosition is told to avoid when it relocates the egg: the
\* snake with its new head, and the active bonuses
ExcludedForFood ==
  Range(gameState.snake) \cup {CellAhead}
    \cup {gameState.bonusState.activeBonuses[i].position :
            i \in 1 .. Len(gameState.bonusState.activeBonuses)}

\* A type is due with the pickup ahead, so a bonus has to be placed once the
\* egg has its new cell
BonusDueAhead ==
  \E type \in SpawnableTypes :
     /\ gameState.bonusState.eggsEatenSince[type] + 1 >= gameState.bonusState.nextSpawnAt[type]
     /\ Cardinality(Instances(gameState, type)) < ConfigOf(type).maxInstances

\* C39: in every reachable state in which the regular egg has to be relocated
\* or a bonus placed, a grid cell lies outside the excluded set (snake, egg,
\* active bonuses), so that the rejection loop of getRandomPosition ends.
FreeCellWhenPlacing ==
  RelocationAhead
    => /\ Cells \ ExcludedForFood # {}
       /\ BonusDueAhead => Cardinality(Cells \ ExcludedForFood) >= 2

====
